---- MODULE Spec2Model ----
(***************************************************************************)
(* Model of the forge-downloader resolution engine and install flow.       *)
(*                                                                         *)
(* The libraries directory is a map from artifact (its canonical local     *)
(* path) to the bytes stored there; the installer archive is a map from    *)
(* artifact to the bytes of its maven/<path> entry.  Byte strings are      *)
(* abstract values ("x", "y"); Sha1 maps each to its own digest.           *)
(***************************************************************************)
EXTENDS Integers, Sequences, FiniteSets, TLC

\* ------------------------------------------------------------------ bounds
MaxCalls == 2      \* libraries a caller hands to the resolution API in one behaviour
NumDirs == 2       \* additional library directories a caller may pass
MaxLibs == 2       \* libraries in a V2 manifest (version libraries ++ profile libraries)
MaxProcs == 2      \* processors of the installer profile
MaxRuns == 2       \* runs of the processor pipeline in one behaviour
MaxTampers == 1    \* changes the environment makes to output files between runs
MaxTemplateLen == 4  \* characters of a template drawn from the alphabet
MaxSegs == 3       \* sections of a template built from sections
MaxBufLen == 2     \* bytes a reader gives to Sha1Sum::from_reader
MaxEdits == 1      \* keys of a manifest that differ from a complete V1, V2 or empty object
MaxDeps == 2       \* entries of a processor's classpath
MaxArgs == 2       \* arguments of a processor
MaxVersions == 3   \* entries of the version index
MaxData == 2       \* data entries of the installer manifest
DigestLen == 20    \* bytes of a Sha1Sum

\* ------------------------------------------------------------------ values
Artifacts == {"a", "b"}
Contents == {"x", "y"}
Absent == "absent"
FileState == Contents \cup {Absent}
None == "none"

\* Sha1Sum::from_reader: the digest of a byte string; distinct bytes, distinct digests.
Sha1(c) == IF c = "x" THEN "hx" ELSE IF c = "y" THEN "hy" ELSE "h?"

\* Option<String> url of a MojangArtifact: absent, empty, or a real URL.
Urls == {None, "", "u"}

\* MojangLibrary.  has_artifact = FALSE is downloads.artifact = None.  The manifest's
\* expected digest, when present, is the digest of "x" (the byte strings are
\* interchangeable, so one expected value covers both).
MojangLibraries ==
  [form : {"mojang"}, name : Artifacts, has_artifact : {TRUE}, url : Urls,
   sha1 : {None, Sha1("x")}]
    \cup [form : {"mojang"}, name : Artifacts, has_artifact : {FALSE}, url : {None},
          sha1 : {None}]

NoLib == [form |-> "mojang", name |-> "-", has_artifact |-> FALSE, url |-> None, sha1 |-> None]

\* ForgeVersionLibrary is untagged: an entry of a libraries list that has no
\* `downloads` object is read as the Forge variant.
ForgeEntries ==
  {[form |-> "forge", name |-> "a", has_artifact |-> FALSE, url |-> None, sha1 |-> None]}

\* library.downloads.artifact ... unwrap_or(MojangArtifact::new(..)): no url, no sha1.
Download(library) ==
  IF library.has_artifact
    THEN [url |-> library.url, sha1 |-> library.sha1]
    ELSE [url |-> None, sha1 |-> None]

\* ForgeLibrary (legacy schema).  clientreq / serverreq are Option<bool> ("none" when
\* absent); checksums is the Vec<Sha1Sum>; url is the optional mirror.
StartsWith(s, p) == Len(s) >= Len(p) /\ SubSeq(s, 1, Len(p)) = p

Mirror == "https://libraries.minecraft.net"
ForgeUrls == {None, "", "https://maven.example", Mirror}

ForgeLibraries ==
  [name : Artifacts, url : ForgeUrls,
   clientreq : {"true"}, serverreq : {None},
   checksums : {<<>>, <<"hx">>, <<"hy", "hx">>}, enabled : BOOLEAN]
    \cup [name : Artifacts, url : ForgeUrls,
          clientreq : {None}, serverreq : {"true"},
          checksums : {<<>>, <<"hx">>, <<"hy", "hx">>}, enabled : BOOLEAN]

NoForgeLib == [name |-> "-", url |-> None, clientreq |-> None, serverreq |-> None,
               checksums |-> <<>>, enabled |-> FALSE]

\* ForgeLibrary::get_url
get_url(lib) ==
  IF lib.url # None THEN lib.url \o "/" ELSE "https://libraries.minecraft.net/"

\* ForgeLibrary::is_side: Option<bool>::unwrap_or_default
is_side(lib, side) ==
  IF side = "clientreq" THEN lib.clientreq = "true" ELSE lib.serverreq = "true"

\* Url::parse: a URL needs a scheme; the mirrors of the model are https.
UrlParses(u) == StartsWith(u, "https://")

\* Artifact::get_path_string, for the artifacts of the model.
get_path_string(name) == "org/" \o name \o "/1.0/" \o name \o "-1.0.jar"

\* lib_url.set_path(path): the origin of the URL followed by the path.
SetPath(u, path) == u \o path

Contains(seq, x) == \E i \in 1..Len(seq) : seq[i] = x

\* One entry of the log of a download_library call: the source consulted, what was
\* found there, and the outcome of the remove_file that followed (if any).
Ev(src, n, out, rm) == [src |-> src, n |-> n, out |-> out, rm |-> rm]

VARIABLES
  files,      \* libraries root: artifact -> bytes at its local path, or Absent
  archive,    \* installer archive: artifact -> bytes of maven/<path>, or Absent
  grabbed,    \* Vec<Artifact> handed to the resolution functions
  calls,      \* number of API calls made so far
  pc,         \* position inside download_library ("idle" when not running)
  library,    \* the library of the running download_library call
  enabled,    \* optional(descriptor) for that library
  ndirs,      \* additional_library_dirs.len()
  k,          \* index of the additional directory the loop is at
  glen,       \* grabbed.len() when download_library was entered
  res,        \* "none" while running, then "ok" or "err"
  err,        \* which error was returned
  ops,        \* log of the sources consulted for the library being resolved
  is_client,  \* download_installed_libraries: the side argument
  nlibs,      \* download_installed_libraries: libraries.len()
  bi,         \* download_installed_libraries: position of the loop in the list
  blib,       \* download_installed_libraries: the library of the current iteration
  bad,        \* download_installed_libraries: the failed list
  progress,   \* download_installed_libraries: the counter it returns
  ipc,          \* position inside install_forge ("harness": the API is called directly)
  version_libs, \* self.version.libraries
  profile_libs, \* the installer profile's libraries
  has_tasks,    \* PostProcessors.has_tasks
  optionals,    \* the caller's predicate: the artifacts it accepts
  idx,          \* download_libraries: position of the loop
  output,       \* download_libraries: the libraries reported as failed
  results,      \* what download_library returned for each library, with its log
  started,      \* PostProcessors::process has been entered
  ires,         \* what install_forge returned ("none" while running)
  outs,         \* file system at the processors' output paths
  procs,        \* PostProcessors.processors
  runs,         \* runs of PostProcessors::process started so far
  tampers,      \* changes made to output files from outside so far
  ppc,          \* position inside PostProcessors::process ("idle" when not running)
  pi,           \* index of the processor the loop is at
  todo,         \* outputs the running loop over the outputs has not visited yet
  miss,         \* the cache loop's miss flag
  perr,         \* the validation loop has written to err
  valid0,       \* every declared output was valid when the cache loop began
  validT,       \* every declared output was valid when the tool terminated
  exit,         \* exit status of the tool the current step ran ("none" before)
  plog,         \* log of the run: what was done for which processor
  pres,         \* what PostProcessors::process returned ("none" while running)
  fpc,          \* position of a call of a pure function ("off": none in this behaviour)
  tkind,        \* replace_tokens: how the template was drawn ("segs", "raw")
  tsegs,        \* replace_tokens: the sections the template was built from
  template,     \* replace_tokens: the value argument
  tokens,       \* replace_tokens: the tokens argument
  rt,           \* replace_tokens: what it returned
  cpc,          \* position of the coordinate round trip ("off": none in this behaviour)
  coordinate,   \* Artifact::try_from: the value argument
  artifact,     \* what Artifact::try_from returned
  descriptor,   \* what get_descriptor returned
  dpc,          \* position of the digest round trip ("off": none in this behaviour)
  buffer,       \* Sha1Sum::from_reader: the bytes read
  digest,       \* the Sha1Sum made (its 20 bytes)
  hex,          \* the text of a digest: what Into<String> returned, or a text to decode
  decoded,      \* what Sha1Sum::try_from returned
  mpc,          \* position of ForgeInstallerProfile::from_reader ("off": none in this behaviour)
  doc,          \* the bytes of the manifest
  result,       \* from_reader: the V1 parse
  result2,      \* from_reader: the V2 parse
  printed,      \* from_reader: the errors it printed
  profile,      \* what from_reader returned
  qpc,          \* position in the preflight of a processor ("off": none in this behaviour)
  jar,          \* what is at the local path of proc.jar
  main_class,   \* the main class read from the jar's manifest
  proc_classpath, \* proc.classpath
  lib_files,    \* what is at the local paths of the classpath entries
  classpath,    \* the classpath vector
  dep_err,      \* err after the classpath loop: the entries that are not files
  proc_args,    \* proc.args
  data,         \* the data map the arguments are expanded with
  args,         \* the expanded arguments
  classpath_separator, \* ";" on Windows, ":" elsewhere
  cmd_args,     \* the arguments java was spawned with (<<>>: not spawned)
  qres,         \* how the preflight ended ("none" before)
  vpc,          \* position inside get_best_version ("off": none in this behaviour)
  handler,      \* ForgeVersionHandler.versions
  mc_ver,       \* get_best_version: the mc_ver argument
  versions,     \* get_best_version: the elements the iterator `versions` was made over
  cursor,       \* get_best_version: the element the iterator yields next
  found,        \* get_best_version: what versions.find(|v| v.recommended) returned
  best,         \* what get_best_version returned
  epc,          \* position inside the data preparation ("off": none in this behaviour)
  edata,        \* PostProcessors.data: key -> value
  snapshot,     \* the self.data.clone() the preparation loop iterates
  pending,      \* keys of the clone the loop has not visited
  eerr,         \* the values whose extraction failed, as collected in err
  temp,         \* paths of the files the preparation wrote
  elog,         \* what was done for each entry, in order
  handled,      \* processors handled by this call
  eres,         \* how process ended ("none" before)
  lpc,          \* position inside the V1 branch of install_forge ("off": none)
  version_json, \* this run wrote <id>.json
  library_file, \* this run wrote the installed library file
  lreport,      \* the descriptors listed in the error install_forge returned
  lres          \* how install_forge ended ("none" before)

libVars == <<library, enabled, ndirs, k, glen>>
bulkVars == <<is_client, nlibs, bi, blib, bad, progress>>
flowVars == <<ipc, version_libs, profile_libs, has_tasks, optionals, idx, output,
              results, started, ires>>
coordVars == <<cpc, coordinate, artifact, descriptor>>
digestVars == <<dpc, buffer, digest, hex, decoded>>
manifestVars == <<mpc, doc, result, result2, printed, profile>>
preVars == <<qpc, jar, main_class, proc_classpath, lib_files, classpath, dep_err, proc_args,
             data, args, classpath_separator, cmd_args, qres>>
versionVars == <<vpc, handler, mc_ver, versions, cursor, found, best>>
dataVars == <<epc, edata, snapshot, pending, eerr, temp, elog, handled, eres>>
legacyVars == <<lpc, version_json, library_file, lreport, lres>>
extraVars == <<versionVars, dataVars, legacyVars>>
pureVars == <<fpc, tkind, tsegs, template, tokens, rt, coordVars, digestVars, manifestVars,
              extraVars>>
procVars == <<outs, procs, runs, tampers, ppc, pi, todo, miss, perr, valid0, validT, exit,
              plog, pres>>
vars == <<files, archive, grabbed, calls, pc, library, enabled, ndirs, k, glen, res, err, ops,
          is_client, nlibs, bi, blib, bad, progress,
          ipc, version_libs, profile_libs, has_tasks, optionals, idx, output,
          results, started, ires,
          outs, procs, runs, tampers, ppc, pi, todo, miss, perr, valid0, validT, exit,
          plog, pres,
          fpc, tkind, tsegs, template, tokens, rt,
          cpc, coordinate, artifact, descriptor, dpc, buffer, digest, hex, decoded,
          mpc, doc, result, result2, printed, profile,
          qpc, jar, main_class, proc_classpath, lib_files, classpath, dep_err, proc_args,
          data, args, classpath_separator, cmd_args, qres,
          vpc, handler, mc_ver, versions, cursor, found, best,
          epc, edata, snapshot, pending, eerr, temp, elog, handled, eres,
          lpc, version_json, library_file, lreport, lres>>

\* ------------------------------------------------------------------ download_library

\* ExistingCopy with the early return on a validated file lost: resolution goes on.
ExistingCopy_refetch(cur, sha1, rmOk) ==
  IF cur = Absent
    THEN [ret |-> "continue", file |-> cur, out |-> "absent", rm |-> "none"]
  ELSE IF sha1 = None
    THEN [ret |-> "ok", file |-> cur, out |-> "trusted", rm |-> "none"]
  ELSE IF sha1 = Sha1(cur)
    THEN [ret |-> "continue", file |-> cur, out |-> "valid", rm |-> "none"]
  ELSE IF rmOk
    THEN [ret |-> "continue", file |-> Absent, out |-> "mismatch", rm |-> "ok"]
    ELSE [ret |-> "err", file |-> cur, out |-> "mismatch", rm |-> "fail"]

\* Existing local copy (the target.is_file() block).
ExistingCopy(cur, sha1, rmOk) ==
  IF cur = Absent
    THEN [ret |-> "continue", file |-> cur, out |-> "absent", rm |-> "none"]
  ELSE IF sha1 = None
    THEN [ret |-> "ok", file |-> cur, out |-> "trusted", rm |-> "none"]
  ELSE IF sha1 = Sha1(cur)
    THEN [ret |-> "ok", file |-> cur, out |-> "valid", rm |-> "none"]
  ELSE IF rmOk
    THEN [ret |-> "continue", file |-> Absent, out |-> "mismatch", rm |-> "ok"]
    ELSE [ret |-> "err", file |-> cur, out |-> "mismatch", rm |-> "fail"]

\* try_to_extract_artifact answering Ok(None) after a validated extraction, so that
\* the caller goes on to the next source.
try_to_extract_artifact_goes_on(cur, entry, sha1, rmOk) ==
  IF entry = Absent
    THEN [ret |-> "none", file |-> cur, push |-> FALSE, out |-> "absent", rm |-> "none"]
  ELSE IF sha1 = None
    THEN [ret |-> "some", file |-> entry, push |-> TRUE, out |-> "trusted", rm |-> "none"]
  ELSE IF sha1 = Sha1(entry)
    THEN [ret |-> "none", file |-> entry, push |-> FALSE, out |-> "valid", rm |-> "none"]
  ELSE IF rmOk
    THEN [ret |-> "some", file |-> Absent, push |-> TRUE, out |-> "mismatch", rm |-> "ok"]
    ELSE [ret |-> "err", file |-> entry, push |-> FALSE, out |-> "mismatch", rm |-> "fail"]

\* try_to_extract_artifact.  After a digest mismatch and a successful remove_file the
\* code leaves the `if let Some(lib_sha1)` block and runs the lines below it: it
\* pushes the artifact and returns Ok(Some(())).  On a digest match it returns
\* Ok(Some(())) without pushing.
try_to_extract_artifact(cur, entry, sha1, rmOk) ==
  IF entry = Absent
    THEN [ret |-> "none", file |-> cur, push |-> FALSE, out |-> "absent", rm |-> "none"]
  ELSE IF sha1 = None
    THEN [ret |-> "some", file |-> entry, push |-> TRUE, out |-> "trusted", rm |-> "none"]
  ELSE IF sha1 = Sha1(entry)
    THEN [ret |-> "some", file |-> entry, push |-> FALSE, out |-> "valid", rm |-> "none"]
  ELSE IF rmOk
    THEN [ret |-> "some", file |-> Absent, push |-> TRUE, out |-> "mismatch", rm |-> "ok"]
    ELSE [ret |-> "err", file |-> entry, push |-> FALSE, out |-> "mismatch", rm |-> "fail"]

\* download_lib with the result of remove_file ignored: the mismatch falls through
\* to the final Ok(()) whether or not the file could be removed.
download_lib_ignores_delete(cur, resp, sha1, rmOk) ==
  IF resp = "neterr"
    THEN [ret |-> "err", file |-> cur, out |-> "neterr", rm |-> "none"]
  ELSE IF sha1 = None
    THEN [ret |-> "ok", file |-> resp, out |-> "trusted", rm |-> "none"]
  ELSE IF sha1 = Sha1(resp)
    THEN [ret |-> "ok", file |-> resp, out |-> "valid", rm |-> "none"]
  ELSE IF rmOk
    THEN [ret |-> "ok", file |-> Absent, out |-> "mismatch", rm |-> "ok"]
    ELSE [ret |-> "ok", file |-> resp, out |-> "mismatch", rm |-> "fail"]

\* download_lib.  resp is the body the server sent, or "neterr" when the request (or
\* writing the body) failed.  After a digest mismatch and a successful remove_file
\* the function falls through to its final Ok(()).
download_lib(cur, resp, sha1, rmOk) ==
  IF resp = "neterr"
    THEN [ret |-> "err", file |-> cur, out |-> "neterr", rm |-> "none"]
  ELSE IF sha1 = None
    THEN [ret |-> "ok", file |-> resp, out |-> "trusted", rm |-> "none"]
  ELSE IF sha1 = Sha1(resp)
    THEN [ret |-> "ok", file |-> resp, out |-> "valid", rm |-> "none"]
  ELSE IF rmOk
    THEN [ret |-> "ok", file |-> Absent, out |-> "mismatch", rm |-> "ok"]
    ELSE [ret |-> "err", file |-> resp, out |-> "mismatch", rm |-> "fail"]

\* url.is_none() || url.unwrap().is_empty()
MissingUrl(url) == url = None \/ url = ""

Target == library.name
Sha1Of == Download(library).sha1

Finish(r, e) == /\ pc' = "ret" /\ res' = r /\ err' = e

\* Entry of download_library: bind the arguments.
Enter(lib, en, n) ==
  /\ pc' = "optional"
  /\ library' = lib
  /\ enabled' = en
  /\ ndirs' = n
  /\ k' = 1
  /\ glen' = Len(grabbed)
  /\ res' = "none"
  /\ err' = ""
  /\ ops' = <<>>

\* A caller invokes download_library(archive, library, root, optional, grabbed, dirs).
CallDownloadLibrary ==
  /\ UNCHANGED <<procVars, pureVars, preVars>>
  /\ ipc = "harness"
  /\ pc = "idle"
  /\ calls < MaxCalls
  /\ calls' = calls + 1
  /\ \E lib \in MojangLibraries, en \in BOOLEAN, n \in 0..NumDirs : Enter(lib, en, n)
  /\ UNCHANGED <<files, archive, grabbed>>
  /\ UNCHANGED bulkVars
  /\ UNCHANGED flowVars

\* The disabled test with the predicate's answer ignored.
Disabled_never(en) == FALSE

\* !optional(&artifact_str)
Disabled(en) == ~en

\* if !optional(&artifact_str) { return Ok(()) }
CheckOptional ==
  /\ UNCHANGED <<procVars, pureVars, preVars>>
  /\ pc = "optional"
  /\ IF Disabled(enabled)
       THEN Finish("ok", "")
       ELSE /\ pc' = "local" /\ UNCHANGED <<res, err>>
  /\ UNCHANGED <<files, archive, grabbed, calls, library, enabled, ndirs, glen, k, ops>>
  /\ UNCHANGED bulkVars
  /\ UNCHANGED flowVars

\* if target.is_file() { ... }  then create_dir_all(target.parent())?
CheckLocal ==
  /\ UNCHANGED <<procVars, pureVars, preVars>>
  /\ pc = "local"
  /\ \E rmOk \in BOOLEAN, mkdirOk \in BOOLEAN :
       LET r == ExistingCopy(files[Target], Sha1Of, rmOk) IN
         /\ files' = [files EXCEPT ![Target] = r.file]
         /\ ops' = Append(ops, Ev("local", 0, r.out, r.rm))
         /\ CASE r.ret = "ok" -> Finish("ok", "")
              [] r.ret = "err" -> Finish("err", "delete")
              [] r.ret = "continue" /\ ~mkdirOk -> Finish("err", "io")
              [] OTHER -> /\ pc' = "extract" /\ UNCHANGED <<res, err>>
  /\ UNCHANGED <<archive, grabbed, calls, library, enabled, ndirs, glen, k>>
  /\ UNCHANGED bulkVars
  /\ UNCHANGED flowVars

\* if let Some(_) = try_to_extract_artifact(..)? { return Ok(()) }
TryExtract ==
  /\ UNCHANGED <<procVars, pureVars, preVars>>
  /\ pc = "extract"
  /\ \E rmOk \in BOOLEAN :
       LET r == try_to_extract_artifact(files[Target], archive[Target], Sha1Of, rmOk) IN
         /\ files' = [files EXCEPT ![Target] = r.file]
         /\ grabbed' = IF r.push THEN Append(grabbed, Target) ELSE grabbed
         /\ ops' = Append(ops, Ev("archive", 0, r.out, r.rm))
         /\ CASE r.ret = "some" -> Finish("ok", "")
              [] r.ret = "err" -> Finish("err", "delete")
              [] OTHER -> /\ pc' = IF Sha1Of # None /\ ndirs >= 1 THEN "dirs" ELSE "remote"
                          /\ UNCHANGED <<res, err>>
  /\ UNCHANGED <<archive, calls, library, enabled, ndirs, glen, k>>
  /\ UNCHANGED bulkVars
  /\ UNCHANGED flowVars

\* The end of an iteration of the loop over the directories with `continue`
\* replaced by a return of the error.
NextDir_aborts == /\ k' = k
                  /\ Finish("err", "copy")

\* One iteration of `for lib_dir in additional_library_dirs` (entered only when the
\* download carries a sha1).  c is what the directory holds at the artifact's path.
NextDir == /\ k' = k + 1
           /\ pc' = IF k + 1 > ndirs THEN "remote" ELSE "dirs"
           /\ UNCHANGED <<res, err>>

TryDir ==
  /\ UNCHANGED <<procVars, pureVars, preVars>>
  /\ pc = "dirs"
  /\ \E c \in FileState :
       \/ /\ c = Absent
          /\ ops' = Append(ops, Ev("dir", k, "absent", "none"))
          /\ NextDir
          /\ UNCHANGED <<files, grabbed>>
       \/ /\ c # Absent /\ Sha1(c) # Sha1Of
          /\ ops' = Append(ops, Ev("dir", k, "mismatch", "none"))
          /\ NextDir
          /\ UNCHANGED <<files, grabbed>>
       \/ \* File::open(&in_lib_dir)? on a file that cannot be read
          /\ c # Absent
          /\ ops' = Append(ops, Ev("dir", k, "unreadable", "none"))
          /\ Finish("err", "io")
          /\ k' = k
          /\ UNCHANGED <<files, grabbed>>
       \/ /\ c # Absent /\ Sha1(c) = Sha1Of
          /\ \/ \* fs::copy succeeded
                /\ files' = [files EXCEPT ![Target] = c]
                /\ grabbed' = Append(grabbed, Target)
                /\ ops' = Append(ops, Ev("dir", k, "copied", "none"))
                /\ Finish("ok", "")
                /\ k' = k
             \/ \* fs::copy failed and left nothing at the target
                /\ ops' = Append(ops, Ev("dir", k, "copyfail", "none"))
                /\ NextDir
                /\ UNCHANGED <<files, grabbed>>
             \/ \* fs::copy failed leaving a partial file p; it is removed
                /\ ops' = Append(ops, Ev("dir", k, "copyfail", "ok"))
                /\ files' = [files EXCEPT ![Target] = Absent]
                /\ NextDir
                /\ UNCHANGED grabbed
             \/ \* fs::copy failed leaving a partial file p that cannot be removed
                \E p \in Contents :
                  /\ files' = [files EXCEPT ![Target] = p]
                  /\ ops' = Append(ops, Ev("dir", k, "copyfail", "fail"))
                  /\ Finish("err", "delete")
                  /\ k' = k
                  /\ UNCHANGED grabbed
  /\ UNCHANGED <<archive, calls, library, enabled, ndirs, glen>>
  /\ UNCHANGED bulkVars
  /\ UNCHANGED flowVars

\* The url check and download_lib.
Remote ==
  /\ UNCHANGED <<procVars, pureVars, preVars>>
  /\ pc = "remote"
  /\ IF MissingUrl(Download(library).url)
       THEN /\ Finish("err", "missing_url")
            /\ UNCHANGED <<files, grabbed, ops>>
       ELSE \E resp \in Contents \cup {"neterr"}, rmOk \in BOOLEAN :
              LET r == download_lib(files[Target], resp, Sha1Of, rmOk) IN
                /\ files' = [files EXCEPT ![Target] = r.file]
                /\ ops' = Append(ops, Ev("remote", 0, r.out, r.rm))
                /\ IF r.ret = "err"
                     THEN /\ Finish("err", "download") /\ UNCHANGED grabbed
                     ELSE /\ Finish("ok", "") /\ grabbed' = Append(grabbed, Target)
  /\ UNCHANGED <<archive, calls, library, enabled, ndirs, glen, k>>
  /\ UNCHANGED bulkVars
  /\ UNCHANGED flowVars

\* ------------------------------------------------------------------ download_installed_libraries

\* The cache test of the loop: lib_path.exists() && !checksums.is_empty() &&
\* checksums.contains(&checksum).
BulkCacheHit(cur, checksums) ==
  cur # Absent /\ checksums # <<>> /\ Contains(checksums, Sha1(cur))

\* download_file.  resp is the response body, "status" a non-success status,
\* "neterr" a failed request.  The body is written to lib_path before its digest is
\* compared; a mismatch returns an error and leaves the file.
download_file(cur, resp, checksums) ==
  IF resp = "neterr" \/ resp = "status"
    THEN [ret |-> "err", file |-> cur, out |-> resp]
  ELSE IF checksums # <<>> /\ ~Contains(checksums, Sha1(resp))
    THEN [ret |-> "err", file |-> resp, out |-> "mismatch"]
    ELSE [ret |-> "ok", file |-> resp,
          out |-> IF checksums = <<>> THEN "trusted" ELSE "valid"]

\* extract_file: copies the archive entry over the target; no digest is compared.
extract_file(cur, entry) ==
  IF entry = Absent
    THEN [ret |-> "err", file |-> cur, out |-> "absent"]
    ELSE [ret |-> "ok", file |-> entry, out |-> "extracted"]

\* The test with the side left out.
CountsAsBad_any_side(lib_url, client) ==
  ~StartsWith(lib_url, "https://libraries.minecraft.net/")

\* The test with the second result left out.
AttemptsFailed_first_only(d, e) == d.ret = "err"

\* if download_file_result.is_err() && extract_file_result.is_err()
AttemptsFailed(d, e) == d.ret = "err" /\ e.ret = "err"

\* if !lib_url.starts_with("https://libraries.minecraft.net/") || !is_client
CountsAsBad(lib_url, client) ==
  ~StartsWith(lib_url, "https://libraries.minecraft.net/") \/ ~client

Side == IF is_client THEN "clientreq" ELSE "serverreq"

\* A caller invokes download_installed_libraries(is_client, dir, libraries, grabbed,
\* bad, archive).  The list is read once, front to back, so each element is drawn
\* when the loop reaches it.
CallBulk ==
  /\ UNCHANGED <<procVars, pureVars, preVars>>
  /\ ipc = "harness"
  /\ pc = "idle"
  /\ calls < MaxCalls
  /\ pc' = "b_loop"
  /\ \E c \in BOOLEAN, n \in 0..(MaxCalls - calls) :
       /\ is_client' = c
       /\ nlibs' = n
       /\ calls' = calls + (IF n = 0 THEN 1 ELSE n)
  /\ bi' = 1
  /\ progress' = 1
  /\ bad' = <<>>
  /\ blib' = NoForgeLib
  /\ res' = "none" /\ err' = "" /\ ops' = <<>>
  /\ UNCHANGED <<files, archive, grabbed>>
  /\ UNCHANGED libVars
  /\ UNCHANGED flowVars

\* Top of one loop iteration, up to the decision to download.
BulkConsider ==
  /\ UNCHANGED <<procVars, pureVars, preVars>>
  /\ pc = "b_loop"
  /\ bi <= nlibs
  /\ \E lib \in ForgeLibraries :
       IF is_side(lib, Side) /\ lib.enabled
         THEN IF files[lib.name] = Absent
                THEN \* File::open(&lib_path)? on a missing file
                     /\ Finish("err", "io")
                     /\ blib' = lib
                     /\ ops' = <<Ev("local", 0, "absent", "none")>>
                     /\ UNCHANGED <<bi, progress>>
              ELSE IF BulkCacheHit(files[lib.name], lib.checksums)
                THEN /\ blib' = lib
                     /\ ops' = <<Ev("local", 0, "valid", "none")>>
                     /\ pc' = "b_next"
                     /\ UNCHANGED <<bi, progress, res, err>>
              ELSE IF ~UrlParses(get_url(lib))
                THEN /\ Finish("err", "url")
                     /\ blib' = lib
                     /\ ops' = <<Ev("local", 0, "mismatch", "none")>>
                     /\ UNCHANGED <<bi, progress>>
                ELSE /\ pc' = "b_fetch"
                     /\ blib' = lib
                     /\ ops' = <<Ev("local", 0, "mismatch", "none")>>
                     /\ UNCHANGED <<bi, progress, res, err>>
         ELSE /\ blib' = lib
              /\ ops' = <<>>
              /\ pc' = "b_next"
              /\ UNCHANGED <<bi, progress, res, err>>
  /\ UNCHANGED <<files, archive, grabbed, calls, is_client, nlibs, bad>>
  /\ UNCHANGED libVars
  /\ UNCHANGED flowVars

\* download_file, then extract_file, then the verdict for this library.
BulkFetch ==
  /\ UNCHANGED <<procVars, pureVars, preVars>>
  /\ pc = "b_fetch"
  /\ \E resp \in Contents \cup {"neterr", "status"} :
       LET lib_url == SetPath(get_url(blib), get_path_string(blib.name))
           d == download_file(files[blib.name], resp, blib.checksums)
           e == extract_file(d.file, archive[blib.name])
       IN /\ files' = [files EXCEPT ![blib.name] = e.file]
          /\ ops' = ops \o <<Ev("remote", 0, d.out, "none"), Ev("archive", 0, e.out, "none")>>
          /\ IF AttemptsFailed(d, e)
               THEN /\ bad' = IF CountsAsBad(lib_url, is_client)
                                THEN Append(bad, blib.name) ELSE bad
                    /\ UNCHANGED grabbed
               ELSE /\ grabbed' = Append(grabbed, blib.name)
                    /\ UNCHANGED bad
  /\ pc' = "b_next"
  /\ UNCHANGED <<archive, calls, res, err, is_client, nlibs, blib, bi, progress>>
  /\ UNCHANGED libVars
  /\ UNCHANGED flowVars

\* End of the iteration (`continue` or the end of the loop body): progress += 1 and
\* the loop moves to the next library.
BulkAdvance ==
  /\ UNCHANGED <<procVars, pureVars, preVars>>
  /\ pc = "b_next"
  /\ pc' = "b_loop"
  /\ progress' = progress + 1
  /\ bi' = bi + 1
  /\ blib' = NoForgeLib
  /\ ops' = <<>>
  /\ UNCHANGED <<files, archive, grabbed, calls, res, err, is_client, nlibs, bad>>
  /\ UNCHANGED libVars
  /\ UNCHANGED flowVars

\* The loop is over: Ok(progress).
BulkDone ==
  /\ UNCHANGED <<procVars, pureVars, preVars>>
  /\ pc = "b_loop"
  /\ bi > nlibs
  /\ Finish("ok", "")
  /\ UNCHANGED <<files, archive, grabbed, calls, ops>>
  /\ UNCHANGED bulkVars
  /\ UNCHANGED libVars
  /\ UNCHANGED flowVars

\* The caller takes the result; the frame is gone.
ClearFrame ==
  /\ pc' = "idle"
  /\ library' = NoLib
  /\ enabled' = FALSE
  /\ ndirs' = 0
  /\ k' = 1
  /\ glen' = 0
  /\ res' = "none"
  /\ err' = ""
  /\ ops' = <<>>
  /\ is_client' = FALSE
  /\ nlibs' = 0
  /\ bi' = 1
  /\ blib' = NoForgeLib
  /\ bad' = <<>>
  /\ progress' = 1

Return ==
  /\ UNCHANGED <<procVars, pureVars, preVars>>
  /\ ipc = "harness"
  /\ pc = "ret"
  /\ ClearFrame
  /\ UNCHANGED <<files, archive, grabbed, calls>>
  /\ UNCHANGED flowVars

\* ------------------------------------------------------------------ install_forge (V2)

\* download_libraries: version libraries first, then the profile's libraries when
\* there are processors to run (PostProcessors::get_libraries).
Libraries ==
  version_libs \o (IF has_tasks THEN profile_libs ELSE <<>>)

\* The condition under which download_libraries reports a library whose
\* download_library call returned an error.
Reported(lib) ==
  lib.has_artifact /\ lib.url # None /\ lib.url # ""

\* download_libraries with the test of its report lost: it always answers Ok.
DownloadLibrariesFailed_never(out) == FALSE

\* download_libraries returns Err exactly when something was reported.
DownloadLibrariesFailed(out) == out # <<>>

\* install_forge up to the library phase: working directories, the version json.
Prepare ==
  /\ UNCHANGED <<procVars, pureVars, preVars>>
  /\ ipc = "start"
  /\ \E ok \in BOOLEAN :
       IF ok THEN ipc' = "vanilla" /\ UNCHANGED ires
             ELSE ipc' = "done" /\ ires' = "err"
  /\ UNCHANGED <<files, archive, grabbed, calls, pc, res, err, ops>>
  /\ UNCHANGED <<version_libs, profile_libs, has_tasks, optionals, idx, output, results, started>>
  /\ UNCHANGED libVars
  /\ UNCHANGED bulkVars

\* download_vanilla_client_jar(..).await?
VanillaClientJar ==
  /\ UNCHANGED <<procVars, pureVars, preVars>>
  /\ ipc = "vanilla"
  /\ \E ok \in BOOLEAN :
       IF ok THEN ipc' = "libs" /\ UNCHANGED ires
             ELSE ipc' = "done" /\ ires' = "err"
  /\ UNCHANGED <<files, archive, grabbed, calls, pc, res, err, ops>>
  /\ UNCHANGED <<version_libs, profile_libs, has_tasks, optionals, idx, output, results, started>>
  /\ UNCHANGED libVars
  /\ UNCHANGED bulkVars

\* download_libraries, one loop iteration: the call of download_library with no
\* additional directories.
SubmitLibrary ==
  /\ UNCHANGED <<procVars, pureVars, preVars>>
  /\ ipc = "libs"
  /\ pc = "idle"
  /\ idx <= Len(Libraries)
  /\ Libraries[idx].form = "mojang"
  /\ Enter(Libraries[idx], Libraries[idx].name \in optionals, 0)
  /\ UNCHANGED <<files, archive, grabbed, calls>>
  /\ UNCHANGED bulkVars
  /\ UNCHANGED flowVars

\* download_libraries, one loop iteration on an entry that is not the Mojang
\* variant: `if let ForgeVersionLibrary::Mojang(lib) = lib` has no else.
SkipLibrary ==
  /\ UNCHANGED <<procVars, pureVars, preVars>>
  /\ ipc = "libs"
  /\ pc = "idle"
  /\ idx <= Len(Libraries)
  /\ Libraries[idx].form # "mojang"
  /\ results' = Append(results, [res |-> "skipped", err |-> "", ops |-> <<>>])
  /\ idx' = idx + 1
  /\ UNCHANGED <<files, archive, grabbed, calls, pc, res, err, ops>>
  /\ UNCHANGED <<ipc, version_libs, profile_libs, has_tasks, optionals, output, started, ires>>
  /\ UNCHANGED libVars
  /\ UNCHANGED bulkVars

\* download_libraries, rest of the iteration: an error is reported only for a
\* library that has a download entry with a non-empty url.
LibraryReturned ==
  /\ UNCHANGED <<procVars, pureVars, preVars>>
  /\ ipc = "libs"
  /\ pc = "ret"
  /\ output' = IF res = "err" /\ Reported(library) THEN Append(output, library.name) ELSE output
  /\ results' = Append(results, [res |-> res, err |-> err, ops |-> ops])
  /\ idx' = idx + 1
  /\ ClearFrame
  /\ UNCHANGED <<files, archive, grabbed, calls>>
  /\ UNCHANGED <<ipc, version_libs, profile_libs, has_tasks, optionals, started, ires>>

\* End of download_libraries and install_forge's test of its result.
LibrariesDone ==
  /\ UNCHANGED <<procVars, pureVars, preVars>>
  /\ ipc = "libs"
  /\ pc = "idle"
  /\ idx > Len(Libraries)
  /\ IF DownloadLibrariesFailed(output)
       THEN ipc' = "done" /\ ires' = "err"
       ELSE ipc' = "processors" /\ UNCHANGED ires
  /\ UNCHANGED <<files, archive, grabbed, calls, pc, res, err, ops>>
  /\ UNCHANGED <<version_libs, profile_libs, has_tasks, optionals, idx, output, results, started>>
  /\ UNCHANGED libVars
  /\ UNCHANGED bulkVars

\* processors.process(..).await and the end of install_forge.
RunProcessors ==
  /\ UNCHANGED <<procVars, pureVars, preVars>>
  /\ ipc = "processors"
  /\ started' = TRUE
  /\ ipc' = "done"
  /\ \E ok \in BOOLEAN : ires' = IF ok THEN "ok" ELSE "err"
  /\ UNCHANGED <<files, archive, grabbed, calls, pc, res, err, ops>>
  /\ UNCHANGED <<version_libs, profile_libs, has_tasks, optionals, idx, output, results>>
  /\ UNCHANGED libVars
  /\ UNCHANGED bulkVars

\* ------------------------------------------------------------------ processor pipeline

\* Output paths of processors, and what a path can hold: nothing, a file with bytes,
\* or a directory (exists() is true, nothing can be read from it).
OutPaths == {"o1", "o2"}
Dir == "dir"
OutState == Contents \cup {Absent, Dir}

\* An entry of Processor.outputs: not declared, declared without a value (or with a
\* value that replace_tokens rejects), declared with the hex text of the digest
\* of "x", or declared with a text that is not the hex of a digest.
Undeclared == "-"
OutputValues == {Undeclared, None, Sha1("x"), "zz"}

\* Processor: its outputs map.  The paths are interchangeable, so an entry without a
\* value is placed on the first path only.
Processors == {p \in [outputs : [OutPaths -> OutputValues]] : p.outputs["o2"] # None}

\* The output paths a processor declares.
Declared(proc) == {o \in OutPaths : proc.outputs[o] # Undeclared}

\* Sha1Sum::try_from(String).ok(): the digest a hex text denotes, or None.
Sha1FromHex(t) == IF t \in {Sha1(c) : c \in Contents} THEN t ELSE None

\* Sha1Sum::from_reader(..).ok() on an opened path.
Sha1OfPath(st) == IF st \in Contents THEN Sha1(st) ELSE None

\* The path holds a file whose digest is the expected one.
OutputValid(st, expected) ==
  st \in Contents /\ Sha1FromHex(expected) # None /\ Sha1(st) = Sha1FromHex(expected)

AllOutputsValid(fs, proc) ==
  \A o \in Declared(proc) : OutputValid(fs[o], proc.outputs[o])

\* One iteration of the cache loop over the outputs.  openOk: File::open succeeds on
\* a directory (it does on some platforms); rmOk: remove_file succeeds.
\* ret: "next" (continue), "err" (return Err), "panic" (an unwrap on None).
CacheProbe(st, expected, openOk, rmOk) ==
  IF expected = None
    THEN [ret |-> "panic", file |-> st, miss |-> FALSE]
  ELSE IF st = Absent
    THEN [ret |-> "next", file |-> st, miss |-> TRUE]
  ELSE IF st = Dir /\ ~openOk
    THEN [ret |-> "err", file |-> st, miss |-> FALSE]
  ELSE IF Sha1OfPath(st) = Sha1FromHex(expected)
    THEN [ret |-> "next", file |-> st, miss |-> FALSE]
  ELSE IF Sha1OfPath(st) = None
    THEN [ret |-> "panic", file |-> st, miss |-> TRUE]
  ELSE IF rmOk
    THEN [ret |-> "next", file |-> Absent, miss |-> TRUE]
    ELSE [ret |-> "err", file |-> st, miss |-> TRUE]

\* if !miss { continue }  (only for a processor with outputs)
CacheHit(proc, m) == Declared(proc) # {} /\ ~m

\* One iteration of the validation loop over the outputs, after the tool ran.
\* bad: the iteration wrote to err.
ValidateProbe(st, expected, openOk, rmOk) ==
  IF st = Absent
    THEN [ret |-> "next", file |-> st, bad |-> TRUE]
  ELSE IF st = Dir
    THEN [ret |-> "err", file |-> st, bad |-> FALSE]
  ELSE IF Sha1FromHex(expected) = None
    THEN [ret |-> "err", file |-> st, bad |-> FALSE]
  ELSE IF Sha1(st) = Sha1FromHex(expected)
    THEN [ret |-> "next", file |-> st, bad |-> FALSE]
    ELSE [ret |-> "next", file |-> IF rmOk THEN Absent ELSE st, bad |-> TRUE]

\* The test of the validation's result with the tool's exit status taken into account.
StepFailed_exit_status(invalid, status) == invalid \/ status = "nonzero"

\* The test of the validation's result failing a step that validated nothing.
StepFailed_nothing_validated(invalid, status) == invalid \/ Declared(procs[pi]) = {}

\* if err.len() > 0 { return Err(..) }: the tool's exit status is not looked at.
StepFailed(invalid, status) == invalid

\* An entry of the run's log.
Pv(p, ev) == [p |-> p, ev |-> ev]

\* A failure that is logged while the loop goes on to the next processor.
PFail_goes_on(kind) ==
  /\ ppc' = "begin"
  /\ pres' = pres
  /\ pi' = pi + 1
  /\ plog' = Append(plog, Pv(pi, "fail"))

\* return Err(..) out of the loop over the processors.
PFail(kind) ==
  /\ ppc' = "done"
  /\ pres' = kind
  /\ pi' = pi
  /\ plog' = Append(plog, Pv(pi, "fail"))

\* The step of the current processor is over: on to the next one.
PNext(ev) ==
  /\ ppc' = "begin"
  /\ pres' = pres
  /\ pi' = pi + 1
  /\ plog' = Append(plog, Pv(pi, ev))

restVars == <<files, archive, grabbed, calls, pc, res, err, ops, pureVars>>

\* Something outside the installer changes an output path between two runs.
Tamper ==
  /\ ppc = "idle"
  /\ tampers < MaxTampers
  /\ tampers' = tampers + 1
  /\ \E o \in OutPaths, st \in OutState :
       /\ st # outs[o]
       /\ outs' = [outs EXCEPT ![o] = st]
  /\ UNCHANGED <<procs, runs, ppc, pi, todo, miss, perr, valid0, validT, exit, plog, pres>>
  /\ UNCHANGED <<restVars, libVars, bulkVars, flowVars, preVars>>

\* PostProcessors::process is entered: the data entries are prepared first.
StartPipeline ==
  /\ ppc = "idle"
  /\ runs < MaxRuns
  /\ runs' = runs + 1
  /\ plog' = <<>>
  /\ pi' = 1
  /\ \E dataOk \in BOOLEAN :
       IF dataOk THEN ppc' = "begin" /\ pres' = "none"
                 ELSE ppc' = "done" /\ pres' = "err"
  /\ UNCHANGED <<outs, procs, tampers, todo, miss, perr, valid0, validT, exit>>
  /\ UNCHANGED <<restVars, libVars, bulkVars, flowVars, preVars>>

\* for proc in &self.processors { let mut outputs = ..; if !proc.outputs.is_empty() {
BeginProcessor ==
  /\ ppc = "begin"
  /\ IF pi > Len(procs)
       THEN /\ ppc' = "done" /\ pres' = "ok"
            /\ UNCHANGED <<todo, miss, valid0, plog>>
       ELSE /\ ppc' = IF Declared(procs[pi]) = {} THEN "preflight" ELSE "cache"
            /\ pres' = pres
            /\ todo' = Declared(procs[pi])
            /\ miss' = FALSE
            /\ valid0' = AllOutputsValid(outs, procs[pi])
            /\ plog' = Append(plog, Pv(pi, "begin"))
  /\ perr' = FALSE
  /\ exit' = "none"
  /\ validT' = FALSE
  /\ UNCHANGED <<outs, procs, runs, tampers, pi>>
  /\ UNCHANGED <<restVars, libVars, bulkVars, flowVars, preVars>>

\* One output of the cache loop (a HashMap is iterated in no particular order).
CacheCheck ==
  /\ ppc = "cache"
  /\ todo # {}
  /\ \E o \in todo, openOk \in BOOLEAN, rmOk \in BOOLEAN :
       LET r == CacheProbe(outs[o], procs[pi].outputs[o], openOk, rmOk) IN
         /\ outs' = [outs EXCEPT ![o] = r.file]
         /\ todo' = todo \ {o}
         /\ miss' = (miss \/ r.miss)
         /\ IF r.ret = "next"
              THEN UNCHANGED <<ppc, pres, pi, plog>>
              ELSE PFail(r.ret)
  /\ UNCHANGED <<procs, runs, tampers, perr, valid0, validT, exit>>
  /\ UNCHANGED <<restVars, libVars, bulkVars, flowVars, preVars>>

\* if !miss { println!("  Cache Hit!"); continue; }
CacheDecide ==
  /\ ppc = "cache"
  /\ todo = {}
  /\ IF CacheHit(procs[pi], miss)
       THEN PNext("skip")
       ELSE /\ ppc' = "preflight"
            /\ UNCHANGED <<pres, pi, plog>>
  /\ UNCHANGED <<outs, procs, runs, tampers, todo, miss, perr, valid0, validT, exit>>
  /\ UNCHANGED <<restVars, libVars, bulkVars, flowVars, preVars>>

\* The jar, its main class, the classpath and the arguments of the processor.
PreflightOutcomes == {"ok", "nojar", "nomain", "nodep", "badarg"}

Preflight ==
  /\ ppc = "preflight"
  /\ \E why \in PreflightOutcomes :
       IF why = "ok"
         THEN /\ ppc' = "invoke"
              /\ plog' = Append(plog, Pv(pi, "preflight"))
              /\ UNCHANGED <<pres, pi>>
         ELSE /\ ppc' = "done"
              /\ pres' = "err"
              /\ pi' = pi
              /\ plog' = Append(Append(plog, Pv(pi, "preflight")), Pv(pi, "fail"))
  /\ UNCHANGED <<outs, procs, runs, tampers, todo, miss, perr, valid0, validT, exit>>
  /\ UNCHANGED <<restVars, libVars, bulkVars, flowVars, preVars>>

\* Command::new("java").args(..).spawn()?.wait()?  The tool writes what it likes to
\* the outputs the processor declares and ends with any exit status.
Invoke ==
  /\ ppc = "invoke"
  /\ \E launch \in {"nospawn", "nowait", "zero", "nonzero"} :
       IF launch = "nospawn"
         THEN /\ PFail("err")
              /\ UNCHANGED <<outs, todo, exit, validT>>
         ELSE \E w \in [OutPaths -> OutState] :
                /\ \A o \in OutPaths \ Declared(procs[pi]) : w[o] = outs[o]
                /\ outs' = w
                /\ IF launch = "nowait"
                     THEN /\ ppc' = "done" /\ pres' = "err" /\ pi' = pi
                          /\ plog' = Append(Append(plog, Pv(pi, "invoke")), Pv(pi, "fail"))
                          /\ UNCHANGED <<todo, exit, validT>>
                     ELSE /\ ppc' = "validate"
                          /\ plog' = Append(plog, Pv(pi, "invoke"))
                          /\ exit' = launch
                          /\ todo' = Declared(procs[pi])
                          /\ validT' = AllOutputsValid(w, procs[pi])
                          /\ UNCHANGED <<pres, pi>>
  /\ UNCHANGED <<procs, runs, tampers, miss, perr, valid0>>
  /\ UNCHANGED <<restVars, libVars, bulkVars, flowVars, preVars>>

\* One output of the validation loop: for (key, value) in outputs { .. }
Validate ==
  /\ ppc = "validate"
  /\ todo # {}
  /\ \E o \in todo, openOk \in BOOLEAN, rmOk \in BOOLEAN :
       LET r == ValidateProbe(outs[o], procs[pi].outputs[o], openOk, rmOk) IN
         /\ outs' = [outs EXCEPT ![o] = r.file]
         /\ todo' = todo \ {o}
         /\ perr' = (perr \/ r.bad)
         /\ IF r.ret = "next"
              THEN UNCHANGED <<ppc, pres, pi, plog>>
              ELSE PFail("err")
  /\ UNCHANGED <<procs, runs, tampers, miss, valid0, validT, exit>>
  /\ UNCHANGED <<restVars, libVars, bulkVars, flowVars, preVars>>

\* if err.len() > 0 { return Err(..) }
ValidateDecide ==
  /\ ppc = "validate"
  /\ todo = {}
  /\ IF StepFailed(perr, exit)
       THEN PFail("err")
       ELSE PNext("ok")
  /\ UNCHANGED <<outs, procs, runs, tampers, todo, miss, perr, valid0, validT, exit>>
  /\ UNCHANGED <<restVars, libVars, bulkVars, flowVars, preVars>>

\* PostProcessors::process has returned to its caller.
PipelineReturn ==
  /\ ppc = "done"
  /\ ppc' = "idle"
  /\ todo' = {}
  /\ miss' = FALSE
  /\ perr' = FALSE
  /\ valid0' = FALSE
  /\ validT' = FALSE
  /\ exit' = "none"
  /\ UNCHANGED <<outs, procs, runs, tampers, pi, plog, pres>>
  /\ UNCHANGED <<restVars, libVars, bulkVars, flowVars, preVars>>

\* No pipeline: the state of a behaviour that runs no processor.
NoPipeline ==
  /\ outs = [o \in OutPaths |-> Absent]
  /\ procs = <<>>
  /\ runs = 0
  /\ tampers = 0
  /\ ppc = "idle"
  /\ pi = 1
  /\ todo = {}
  /\ miss = FALSE
  /\ perr = FALSE
  /\ valid0 = FALSE
  /\ validT = FALSE
  /\ exit = "none"
  /\ plog = <<>>
  /\ pres = "none"

\* ------------------------------------------------------------------ replace_tokens

\* "W" stands for a character that takes two bytes in UTF-8 (any character of the
\* Latin-1 supplement, for instance); every other character of the model takes one.
Wide == "W"
Width(c) == IF c = Wide THEN 2 ELSE 1

\* value.len(): the length of a string in bytes.
RECURSIVE ByteLen(_)
ByteLen(str) ==
  IF str = "" THEN 0
  ELSE Width(SubSeq(str, 1, 1)) + ByteLen(SubSeq(str, 2, Len(str)))

\* value.chars().nth(i): the i-th character, counted from 0, or None.
Nth(str, i) == IF i < Len(str) THEN SubSeq(str, i + 1, i + 1) ELSE None

\* What replace_tokens comes to: Ok(out), Err(why), or a panic (unwrap on None).
RtOk(out) == [st |-> "ok", out |-> out, why |-> ""]
RtErr(why) == [st |-> "err", out |-> "", why |-> why]
RtPanic == [st |-> "panic", out |-> "", why |-> ""]

\* The first branch test with the quote forgotten.
Opens_brace_only(ch) == ch = "{"

\* ch == '{' || ch == '\''
Opens(ch) == ch = "{" \/ ch = "'"

\* (ch == '{' && d == '}') || (ch == '\'' && d == '\'')
Closes(ch, d) == (ch = "{" /\ d = "}") \/ (ch = "'" /\ d = "'")

\* The inner loop: from position y, collect the key of the section that ch opened.
\* Answers the key and the position of the closing character, or the error.
RECURSIVE ScanSection(_, _, _, _)
ScanSection(value, ch, y, key) ==
  IF ~(y <= ByteLen(value)) THEN [st |-> "exit", key |-> key, at |-> y, why |-> ""]
  ELSE IF y = ByteLen(value) THEN [st |-> "err", key |-> key, at |-> y, why |-> "unclosed"]
  ELSE LET d == Nth(value, y) IN
    IF d = None THEN [st |-> "panic", key |-> key, at |-> y, why |-> ""]
    ELSE IF d = "\\"
      THEN IF y = ByteLen(value) - 1
             THEN [st |-> "err", key |-> key, at |-> y, why |-> "bad_escape"]
             ELSE LET e == Nth(value, y + 1) IN
               IF e = None THEN [st |-> "panic", key |-> key, at |-> y, why |-> ""]
               ELSE ScanSection(value, ch, y + 2, key \o e)
    ELSE IF Closes(ch, d) THEN [st |-> "closed", key |-> key, at |-> y, why |-> ""]
    ELSE ScanSection(value, ch, y + 1, key \o d)

\* The outer loop: while char_index < value.len() { .. }
RECURSIVE ScanValue(_, _, _, _)
ScanValue(toks, value, char_index, buf) ==
  IF ~(char_index < ByteLen(value)) THEN RtOk(buf)
  ELSE LET ch == Nth(value, char_index) IN
    IF ch = None THEN RtPanic
    ELSE IF ch = "\\"
      THEN IF char_index = ByteLen(value) - 1
             THEN RtErr("bad_escape")
             ELSE LET e == Nth(value, char_index + 1) IN
               IF e = None THEN RtPanic
               ELSE ScanValue(toks, value, char_index + 2, buf \o e)
    ELSE IF Opens(ch)
      THEN LET r == ScanSection(value, ch, char_index + 1, "") IN
        IF r.st = "panic" THEN RtPanic
        ELSE IF r.st = "err" THEN RtErr(r.why)
        ELSE LET at == IF r.st = "closed" THEN r.at ELSE char_index IN
          IF ch = "'" THEN ScanValue(toks, value, at + 1, buf \o r.key)
          ELSE IF r.key \notin DOMAIN toks THEN RtErr("missing_key")
          ELSE ScanValue(toks, value, at + 1, buf \o toks[r.key])
    ELSE ScanValue(toks, value, char_index + 1, buf \o ch)

replace_tokens(toks, value) == ScanValue(toks, value, 0, "")

\* The token maps of the calls.
NoTokens == [key \in {} |-> ""]
TokenMaps == {NoTokens, [key \in {"A"} |-> "x"]}

\* Templates over an alphabet that has every special character.
Alphabet == {"A", "{", "}", "'", "\\", Wide}
RECURSIVE StringsUpTo(_)
StringsUpTo(n) ==
  IF n = 0 THEN {""}
  ELSE LET S == StringsUpTo(n - 1) IN S \cup {str \o c : str \in S, c \in Alphabet}

\* Templates built from sections: an ordinary character, a {name}, a quoted literal,
\* a quoted escape, an escape.
Sect(kind, text) == [kind |-> kind, text |-> text]
Sections ==
  {Sect("ord", c) : c \in {"p", "}", Wide}}
    \cup {Sect("tok", n) : n \in {"A", "B"}}
    \cup {Sect("quote", l) : l \in {"", "{A}", Wide}}
    \cup {Sect("quote_esc", x) : x \in {"'", "\\"}}
    \cup {Sect("esc", x) : x \in {"{", "'", "\\", Wide}}

\* The text of a section in a template.
RenderSect(sec) ==
  CASE sec.kind = "ord" -> sec.text
    [] sec.kind = "tok" -> "{" \o sec.text \o "}"
    [] sec.kind = "quote" -> "'" \o sec.text \o "'"
    [] sec.kind = "quote_esc" -> "'\\" \o sec.text \o "'"
    [] OTHER -> "\\" \o sec.text

RECURSIVE Render(_)
Render(secs) == IF secs = <<>> THEN "" ELSE RenderSect(Head(secs)) \o Render(Tail(secs))

\* The templates the specification gives as examples.
ExampleApostrophe == "it's \\{escaped\\}"
ExampleEscapedApostrophe == "it\\'s \\{escaped\\}"
ExampleToken == "pre{A}post"
ExampleQuoted == "'{not a token}'"
Examples == {ExampleApostrophe, ExampleEscapedApostrophe, ExampleToken, ExampleQuoted}

\* replace_tokens(&tokens, &value) is called and returns.
ApplyReplaceTokens ==
  /\ fpc = "ready"
  /\ fpc' = "done"
  /\ rt' = replace_tokens(tokens, template)
  /\ UNCHANGED <<tkind, tsegs, template, tokens, coordVars, digestVars, manifestVars>>
  /\ UNCHANGED <<files, archive, grabbed, calls, pc, res, err, ops>>
  /\ UNCHANGED <<libVars, bulkVars, flowVars, procVars, preVars, extraVars>>

\* No call of replace_tokens in this behaviour.
NoReplace ==
  /\ fpc = "off"
  /\ tkind = "raw"
  /\ tsegs = <<>>
  /\ template = ""
  /\ tokens = NoTokens
  /\ rt = RtOk("")

\* ------------------------------------------------------------------ Artifact

RECURSIVE IndexOf(_, _, _)
\* Position of the first ch in str at or after i; 0 when there is none.
IndexOf(str, ch, i) ==
  IF i > Len(str) THEN 0
  ELSE IF SubSeq(str, i, i) = ch THEN i
  ELSE IndexOf(str, ch, i + 1)

\* str.split_once(ch): the text before and after the first ch, <<>> when there is none.
split_once(str, ch) ==
  LET p == IndexOf(str, ch, 1)
  IN IF p = 0 THEN <<>>
     ELSE <<SubSeq(str, 1, p - 1), SubSeq(str, p + 1, Len(str))>>

RECURSIVE split(_, _)
\* str.split(ch).collect(): the pieces between the occurrences of ch.
split(str, ch) ==
  LET p == IndexOf(str, ch, 1)
  IN IF p = 0 THEN <<str>>
     ELSE <<SubSeq(str, 1, p - 1)>> \o split(SubSeq(str, p + 1, Len(str)), ch)

RECURSIVE join(_, _)
\* parts.join(sep)
join(parts, sep) ==
  IF Len(parts) = 0 THEN ""
  ELSE IF Len(parts) = 1 THEN parts[1]
  ELSE parts[1] \o sep \o join(Tail(parts), sep)

\* An Option<String>: <<>> is None, <<s>> is Some(s).
Some(s) == <<s>>

NoArtifact ==
  [original_descriptor |-> <<>>, group_id |-> <<>>, artifact_id |-> "", version |-> "",
   classifier |-> <<>>, ext |-> ""]
ArtOk(a) == [ok |-> TRUE, value |-> a]
ArtErr == [ok |-> FALSE, value |-> NoArtifact]

\* Another extension than the one unwrap_or gives.
DefaultExt_none == ""

\* The extension of a coordinate without "@": unwrap_or((&value, "jar"))
DefaultExt == "jar"

\* Artifact::try_from(value).  The value the descriptor is kept from is the
\* one the split at "@" has already shortened.
ArtifactTryFrom(value0) ==
  LET at == split_once(value0, "@")
      value == IF at = <<>> THEN value0 ELSE at[1]
      ext == IF at = <<>> THEN DefaultExt ELSE at[2]
      parts == split(value, ":")
  IN IF Len(parts) < 3 THEN ArtErr
     ELSE ArtOk([original_descriptor |-> Some(value),
                 group_id |-> split(parts[1], "."),
                 artifact_id |-> parts[2],
                 version |-> parts[3],
                 classifier |-> IF Len(parts) >= 4 THEN Some(parts[4]) ELSE <<>>,
                 ext |-> ext])

\* Artifact::get_descriptor
get_descriptor(a) ==
  IF a.original_descriptor # <<>> THEN a.original_descriptor[1]
  ELSE join(a.group_id, ".") \o ":" \o a.artifact_id \o ":" \o a.version
         \o (IF a.classifier # <<>> THEN ":" \o a.classifier[1] ELSE "")

\* Artifact::get_file
get_file(a) ==
  a.artifact_id \o "-" \o a.version
    \o (IF a.classifier # <<>> THEN "-" \o a.classifier[1] ELSE "")
    \o "." \o a.ext

\* The components coordinate texts are written from.
Groups == {"g", "g.h"}
ArtifactIds == {"a", "b-c"}
Versions == {"1", "1.0"}
ClassifierOpts == {<<>>, Some("c")}
ExtOpts == {<<>>, Some("jar"), Some("zip")}

\* The text g:a:v[:c][@e]
Coordinate(g, a, v, c, e) ==
  g \o ":" \o a \o ":" \o v
    \o (IF c # <<>> THEN ":" \o c[1] ELSE "")
    \o (IF e # <<>> THEN "@" \o e[1] ELSE "")

ValidCoordinates ==
  {Coordinate(g, a, v, c, e) :
     g \in Groups, a \in ArtifactIds, v \in Versions, c \in ClassifierOpts, e \in ExtOpts}
InvalidCoordinates == {"", "g", "g:a", "g:a@zip", "@"}
\* Texts with more segments than four, with empty segments, and with colons
\* only after the "@".
OddCoordinates == {"g:a:1:c:d", "::", "g:a@1:c", "g:a:1@"}
CoordinateTexts == ValidCoordinates \cup InvalidCoordinates \cup OddCoordinates

\* Artifact::try_from(coordinate) is called and returns.
ParseArtifact ==
  /\ cpc = "text"
  /\ artifact' = ArtifactTryFrom(coordinate)
  /\ cpc' = IF artifact'.ok THEN "parsed" ELSE "failed"
  /\ UNCHANGED <<coordinate, descriptor>>
  /\ UNCHANGED <<fpc, tkind, tsegs, template, tokens, rt, digestVars, manifestVars>>
  /\ UNCHANGED <<files, archive, grabbed, calls, pc, res, err, ops>>
  /\ UNCHANGED <<libVars, bulkVars, flowVars, procVars, preVars, extraVars>>

\* get_descriptor() is called on the parsed artifact.
GetDescriptor ==
  /\ cpc = "parsed"
  /\ descriptor' = get_descriptor(artifact.value)
  /\ cpc' = "described"
  /\ UNCHANGED <<coordinate, artifact>>
  /\ UNCHANGED <<fpc, tkind, tsegs, template, tokens, rt, digestVars, manifestVars>>
  /\ UNCHANGED <<files, archive, grabbed, calls, pc, res, err, ops>>
  /\ UNCHANGED <<libVars, bulkVars, flowVars, procVars, preVars, extraVars>>

\* No coordinate is parsed in this behaviour.
NoCoordinate ==
  /\ cpc = "off"
  /\ coordinate = ""
  /\ artifact = ArtErr
  /\ descriptor = ""

\* ------------------------------------------------------------------ Sha1Sum

\* Characters hex::encode writes, and the capitals hex::decode_to_slice also reads.
HexDigits == "0123456789abcdef"
UpperDigits == "0123456789ABCDEF"

HexChar(n) == SubSeq(HexDigits, n + 1, n + 1)

\* A byte written without its leading zero.
EncodeByte_no_padding(b) ==
  IF b < 16 THEN HexChar(b) ELSE HexChar(b \div 16) \o HexChar(b % 16)

\* hex::encode, one byte: the high nibble, then the low one.
EncodeByte(b) == HexChar(b \div 16) \o HexChar(b % 16)

RECURSIVE HexEncode(_)
\* hex::encode(bytes)
HexEncode(bytes) ==
  IF Len(bytes) = 0 THEN ""
  ELSE EncodeByte(bytes[1]) \o HexEncode(Tail(bytes))

\* The value of a hex character, -1 for any other character.
Val(c) ==
  IF \E n \in 0..15 : SubSeq(HexDigits, n + 1, n + 1) = c
    THEN CHOOSE n \in 0..15 : SubSeq(HexDigits, n + 1, n + 1) = c
  ELSE IF \E n \in 10..15 : SubSeq(UpperDigits, n + 1, n + 1) = c
    THEN CHOOSE n \in 10..15 : SubSeq(UpperDigits, n + 1, n + 1) = c
  ELSE -1

DecOk(bytes) == [ok |-> TRUE, bytes |-> bytes, error |-> ""]
DecErr(e) == [ok |-> FALSE, bytes |-> <<>>, error |-> e]

\* A decoder that only refuses a text too short for the slice.
LengthMismatch_short_only(t, n) == Len(t) \div 2 < n

\* The text does not have two characters for each byte of the slice.
LengthMismatch(t, n) == Len(t) \div 2 # n

\* hex::decode_to_slice(t, &mut [0u8; n])
decode_to_slice(t, n) ==
  IF Len(t) % 2 # 0 THEN DecErr("OddLength")
  ELSE IF LengthMismatch(t, n) THEN DecErr("InvalidStringLength")
  ELSE IF \E i \in 1..Len(t) : Val(SubSeq(t, i, i)) = -1 THEN DecErr("InvalidHexCharacter")
  ELSE DecOk([i \in 1..n |->
                Val(SubSeq(t, 2 * i - 1, 2 * i - 1)) * 16 + Val(SubSeq(t, 2 * i, 2 * i))])

\* Sha1Sum::try_from(value)
Sha1SumTryFrom(value) == decode_to_slice(value, DigestLen)

RECURSIVE Weighted(_, _, _)
Weighted(buf, i, j) ==
  IF j > Len(buf) THEN 0 ELSE buf[j] * (i + j) + Weighted(buf, i, j + 1)

\* The 20 bytes Sha1::finalize() gives for a buffer.  SHA-1 is not computed:
\* the digest is a fixed function of the bytes read onto 20 bytes.
Sha1Bytes(buf) ==
  [i \in 1..DigestLen |-> (Len(buf) * 7 + i * 29 + Weighted(buf, i, 1)) % 256]

BufBytes == {0, 1, 255}
Buffers == UNION {[1..n -> BufBytes] : n \in 0..MaxBufLen}

\* Arrays given to Sha1Sum::new: every byte value occurs in one of them.
NewValues == {[i \in 1..DigestLen |-> (b + i * s) % 256] : b \in 0..255, s \in {0, 13}}

RECURSIVE Repeat(_, _)
Repeat(s, n) == IF n = 0 THEN "" ELSE s \o Repeat(s, n - 1)

\* Texts given to Sha1Sum::try_from that no digest was written as.
HexTexts ==
  {"", "zz", "abc", Repeat("AB", DigestLen), Repeat("0g", DigestLen),
   Repeat("ab", DigestLen + 1), Repeat("ab", DigestLen - 1),
   Repeat("0a", DigestLen), Repeat("aB", DigestLen), Repeat("a", 2 * DigestLen - 1)}

\* Sha1Sum::new(value)
NewSha1Sum ==
  /\ dpc = "value"
  /\ digest' = buffer
  /\ dpc' = "digest"
  /\ UNCHANGED <<buffer, hex, decoded>>
  /\ UNCHANGED <<fpc, tkind, tsegs, template, tokens, rt, coordVars, manifestVars>>
  /\ UNCHANGED <<files, archive, grabbed, calls, pc, res, err, ops>>
  /\ UNCHANGED <<libVars, bulkVars, flowVars, procVars, preVars, extraVars>>

\* Sha1Sum::from_reader(value): read_to_end fails, or the bytes read are hashed.
FromReader ==
  /\ dpc = "reader"
  /\ \E readOk \in BOOLEAN :
       IF readOk
         THEN /\ digest' = Sha1Bytes(buffer)
              /\ dpc' = "digest"
         ELSE /\ digest' = digest
              /\ dpc' = "failed"
  /\ UNCHANGED <<buffer, hex, decoded>>
  /\ UNCHANGED <<fpc, tkind, tsegs, template, tokens, rt, coordVars, manifestVars>>
  /\ UNCHANGED <<files, archive, grabbed, calls, pc, res, err, ops>>
  /\ UNCHANGED <<libVars, bulkVars, flowVars, procVars, preVars, extraVars>>

\* Into<String> for Sha1Sum
IntoString ==
  /\ dpc = "digest"
  /\ hex' = HexEncode(digest)
  /\ dpc' = "encoded"
  /\ UNCHANGED <<buffer, digest, decoded>>
  /\ UNCHANGED <<fpc, tkind, tsegs, template, tokens, rt, coordVars, manifestVars>>
  /\ UNCHANGED <<files, archive, grabbed, calls, pc, res, err, ops>>
  /\ UNCHANGED <<libVars, bulkVars, flowVars, procVars, preVars, extraVars>>

\* Sha1Sum::try_from(hex) is called and returns.
TryFromString ==
  /\ dpc \in {"encoded", "hextext"}
  /\ decoded' = Sha1SumTryFrom(hex)
  /\ dpc' = "decoded"
  /\ UNCHANGED <<buffer, digest, hex>>
  /\ UNCHANGED <<fpc, tkind, tsegs, template, tokens, rt, coordVars, manifestVars>>
  /\ UNCHANGED <<files, archive, grabbed, calls, pc, res, err, ops>>
  /\ UNCHANGED <<libVars, bulkVars, flowVars, procVars, preVars, extraVars>>

\* Into<String> for the Sha1Sum that try_from gave for a text.
IntoStringDecoded ==
  /\ dpc = "decoded"
  /\ digest = <<>>
  /\ decoded.ok
  /\ hex' = HexEncode(decoded.bytes)
  /\ dpc' = "reencoded"
  /\ UNCHANGED <<buffer, digest, decoded>>
  /\ UNCHANGED <<fpc, tkind, tsegs, template, tokens, rt, coordVars, manifestVars>>
  /\ UNCHANGED <<files, archive, grabbed, calls, pc, res, err, ops>>
  /\ UNCHANGED <<libVars, bulkVars, flowVars, procVars, preVars, extraVars>>

\* No digest is made in this behaviour.
NoDigest ==
  /\ dpc = "off"
  /\ buffer = <<>>
  /\ digest = <<>>
  /\ hex = ""
  /\ decoded = DecErr("")

\* ------------------------------------------------------------------ ForgeInstallerProfile

\* Top-level keys of install_profile.json the two schemas read.  serde ignores
\* every key a struct has no field for.
V1Required == {"install", "versionInfo"}
V1Defaulted == {"optionals"}
V2Required == {"spec", "profile", "version", "json", "logo", "minecraft", "welcome",
               "data", "processors", "libraries"}
V2Defaulted == {"icon"}
TopKeys == V1Required \cup V1Defaulted \cup V2Required \cup V2Defaulted

\* A key is absent, holds a value of the field's type ("ok") or another value ("bad").
KeyStates == {"absent", "ok", "bad"}

\* The bytes of the manifest: not JSON at all, or an object with these keys.
Document(json, keys) == [json |-> json, keys |-> keys]
Garbage == Document(FALSE, [key \in TopKeys |-> "absent"])
ObjectWith(present) == Document(TRUE, [key \in TopKeys |-> IF key \in present THEN "ok" ELSE "absent"])
BaseDocuments ==
  {ObjectWith({}), ObjectWith(V1Required), ObjectWith(V2Required),
   ObjectWith(V1Required \cup V2Required)}

RECURSIVE Edited(_, _)
\* The document with the keys of the edits set, in turn.
Edited(d, edits) ==
  IF Len(edits) = 0 THEN d
  ELSE Edited(Document(d.json, [d.keys EXCEPT ![edits[1][1]] = edits[1][2]]), Tail(edits))

Documents ==
  {Garbage} \cup
  {Edited(d, edits) : d \in BaseDocuments,
                      edits \in UNION {[1..n -> TopKeys \X KeyStates] : n \in 0..MaxEdits}}

NoProfile == [schema |-> "none", keys |-> {}]
ParseOk(v) == [ok |-> TRUE, value |-> v, error |-> ""]
ParseErr(e) == [ok |-> FALSE, value |-> NoProfile, error |-> e]
NotParsed == ParseErr("")

\* serde_json::from_slice::<T>(bytes) for a struct with these required and
\* defaulted fields: a value of the wrong type fails when its key is visited,
\* a missing required field when the object ends.
FromSlice(schema, required, defaulted, d) ==
  IF ~d.json THEN ParseErr(schema \o ": syntax")
  ELSE IF \E key \in required \cup defaulted : d.keys[key] = "bad"
    THEN ParseErr(schema \o ": invalid type")
  ELSE IF \E key \in required : d.keys[key] = "absent"
    THEN ParseErr(schema \o ": missing field")
  ELSE ParseOk([schema |-> schema,
                keys |-> {key \in required \cup defaulted : d.keys[key] = "ok"}])

ParseV1(d) == FromSlice("V1", V1Required, V1Defaulted, d)
ParseV2(d) == FromSlice("V2", V2Required, V2Defaulted, d)

\* Result::or taken the other way round: the second result when it is Ok.
Or_second_first(a, b) == IF b.ok THEN b ELSE a

\* a.or(b): a when it is Ok, otherwise b.
Or(a, b) == IF a.ok THEN a ELSE b

\* ForgeInstallerProfile::from_reader(reader)
ProfileFromReader ==
  /\ mpc = "ready"
  /\ \E readOk \in BOOLEAN :
       IF ~readOk
         THEN \* read_to_end(..).unwrap()
              /\ mpc' = "panicked"
              /\ UNCHANGED <<result, result2, printed, profile>>
         ELSE LET r1 == ParseV1(doc)
                  r2 == ParseV2(doc)
              IN /\ result' = r1
                 /\ result2' = r2
                 /\ IF ~r1.ok /\ ~r2.ok
                      THEN /\ printed' = <<"Error " \o r1.error, "Error " \o r2.error>>
                           /\ mpc' = "panicked"
                           /\ profile' = profile
                      ELSE /\ printed' = printed
                           /\ mpc' = "returned"
                           /\ profile' = Or(r1, r2).value
  /\ UNCHANGED doc
  /\ UNCHANGED <<fpc, tkind, tsegs, template, tokens, rt, coordVars, digestVars>>
  /\ UNCHANGED <<files, archive, grabbed, calls, pc, res, err, ops>>
  /\ UNCHANGED <<libVars, bulkVars, flowVars, procVars, preVars, extraVars>>

\* No manifest is parsed in this behaviour.
NoManifest ==
  /\ mpc = "off"
  /\ doc = Garbage
  /\ result = NotParsed
  /\ result2 = NotParsed
  /\ printed = <<>>
  /\ profile = NoProfile

\* ------------------------------------------------------------------ processor preflight

\* The processor's jar at its local path: no file, a directory, a file that is
\* no archive, an archive without META-INF/MANIFEST.MF, or a jar with these
\* manifest lines.
Jar(kind, lines) == [kind |-> kind, lines |-> lines]
Manifests ==
  {<<>>,
   <<"Manifest-Version: 1.0">>,
   <<"Manifest-Version: 1.0", "Main-Class: M">>,
   <<"Main-Class:M">>,
   <<"Main-Class:">>,
   <<"Main-Class:  ">>,
   <<"main-class: M">>,
   <<"Main-Class : M">>,
   <<"Main-Class: ", "Main-Class: M">>,
   <<"Created-By", "Main-Class: a:b ">>}
Jars ==
  {Jar(kind, <<>>) : kind \in {"missing", "dir", "notzip", "nomanifest"}}
    \cup {Jar("jar", lines) : lines \in Manifests}

\* A value left as it is.
Trim_not(str) == str

RECURSIVE TrimStart(_)
TrimStart(str) ==
  IF str # "" /\ SubSeq(str, 1, 1) = " " THEN TrimStart(SubSeq(str, 2, Len(str))) ELSE str

RECURSIVE TrimEnd(_)
TrimEnd(str) ==
  IF str # "" /\ SubSeq(str, Len(str), Len(str)) = " "
    THEN TrimEnd(SubSeq(str, 1, Len(str) - 1)) ELSE str

\* value.trim()
Trim(str) == TrimEnd(TrimStart(str))

RECURSIVE MainClassOf(_)
\* lines().filter_map(split_once(":")).find(key == "Main-Class").map(trim)
\*   .unwrap_or_default()
MainClassOf(lines) ==
  IF Len(lines) = 0 THEN ""
  ELSE LET kv == split_once(lines[1], ":")
       IN IF kv # <<>> /\ kv[1] = "Main-Class" THEN Trim(kv[2])
          ELSE MainClassOf(Tail(lines))

\* The libraries directory and Artifact::get_local_path below it.
LibrariesDir == "libraries"
get_local_path(a) ==
  join(<<LibrariesDir>> \o a.group_id \o <<a.artifact_id, a.version, get_file(a)>>, "/")

\* The processor's jar is at this path.
JarPath == get_local_path(ArtifactTryFrom("g:tool:1").value)

\* Artifacts a processor's classpath names, and what is at their local paths.
Deps == {"g:d1:1", "g:d2:1"}
DepStates == {"file", "missing", "dir"}

\* A directory taken for a file.
NotFile_missing_only(st) == st = "missing"

\* !lib.is_file()
NotFile(st) == st # "file"

RECURSIVE ClasspathOf(_)
\* The local paths of the classpath entries, in their order.
ClasspathOf(deps) ==
  IF Len(deps) = 0 THEN <<>>
  ELSE <<get_local_path(ArtifactTryFrom(deps[1]).value)>> \o ClasspathOf(Tail(deps))

RECURSIVE MissingOf(_, _)
\* err after the loop over the classpath: the descriptor of every entry that is
\* not a file.
MissingOf(deps, fs) ==
  IF Len(deps) = 0 THEN <<>>
  ELSE (IF NotFile(fs[deps[1]])
          THEN <<get_descriptor(ArtifactTryFrom(deps[1]).value)>> ELSE <<>>)
         \o MissingOf(Tail(deps), fs)

\* Arguments a processor declares.
ProcArgs == {"[g:a:1]", "[g:a:{A}@zip]", "[abc]", "{A}", "'{A}'", "[x", "{", Wide, "--o"}

\* An argument taken for a coordinate as soon as it starts with "[".
IsBracketed_prefix_only(arg) == StartsWith(arg, "[")

\* arg.starts_with('[') && arg.ends_with(']')
IsBracketed(arg) ==
  StartsWith(arg, "[") /\ Len(arg) >= 1 /\ SubSeq(arg, Len(arg), Len(arg)) = "]"

\* One argument: Artifact::try_from(arg[1..arg.len() - 1])? and its local path,
\* or replace_tokens(&data, &arg)?
ExpandArg(toks, arg) ==
  IF IsBracketed(arg)
    THEN LET a == ArtifactTryFrom(SubSeq(arg, 2, Len(arg) - 1))
         IN IF a.ok THEN RtOk(get_local_path(a.value)) ELSE RtErr("coordinate")
    ELSE replace_tokens(toks, arg)

RECURSIVE ExpandArgs(_, _, _)
\* for arg in &proc.args: the arguments so far, or the first failure.
ExpandArgs(toks, templates, done) ==
  IF Len(templates) = 0 THEN [st |-> "ok", args |-> done]
  ELSE LET r == ExpandArg(toks, templates[1])
       IN IF r.st = "ok" THEN ExpandArgs(toks, Tail(templates), Append(done, r.out))
          ELSE [st |-> r.st, args |-> done]

\* The preflight ends without the tool.
PreflightFails(why) ==
  /\ qpc' = "done"
  /\ qres' = why

\* if !jar.exists() || !jar.is_file()
CheckJar ==
  /\ qpc = "jar"
  /\ IF jar.kind \in {"missing", "dir"}
       THEN PreflightFails("missing_jar")
       ELSE qpc' = "main_class" /\ qres' = qres
  /\ UNCHANGED <<jar, main_class, proc_classpath, lib_files, classpath, dep_err,
                 proc_args, data, args, classpath_separator, cmd_args>>
  /\ UNCHANGED <<files, archive, grabbed, calls, pc, res, err, ops>>
  /\ UNCHANGED <<libVars, bulkVars, flowVars, procVars, pureVars>>

\* The main class is read from the jar's manifest.
ReadMainClass ==
  /\ qpc = "main_class"
  /\ IF jar.kind # "jar"
       THEN \* ZipArchive::new(..)? or by_name("META-INF/MANIFEST.MF")?
            /\ PreflightFails("zip")
            /\ main_class' = main_class
       ELSE /\ main_class' = MainClassOf(jar.lines)
            /\ IF main_class' = ""
                 THEN PreflightFails("no_main_class")
                 ELSE qpc' = "classpath" /\ qres' = qres
  /\ UNCHANGED <<jar, proc_classpath, lib_files, classpath, dep_err,
                 proc_args, data, args, classpath_separator, cmd_args>>
  /\ UNCHANGED <<files, archive, grabbed, calls, pc, res, err, ops>>
  /\ UNCHANGED <<libVars, bulkVars, flowVars, procVars, pureVars>>

\* The classpath: the jar, then every entry of proc.classpath; the entries that
\* are not files are collected, and reported together.  The processor's list
\* and the files are read here for the first time.
BuildClasspath ==
  /\ qpc = "classpath"
  /\ \E n \in 0..MaxDeps : \E deps \in [1..n -> Deps] : \E fs \in [Deps -> DepStates] :
       /\ proc_classpath' = deps
       /\ lib_files' = fs
       /\ classpath' = <<JarPath>> \o ClasspathOf(deps)
       /\ dep_err' = MissingOf(deps, fs)
       /\ IF Len(dep_err') > 0
            THEN PreflightFails("missing_deps")
            ELSE qpc' = "args" /\ qres' = qres
  /\ UNCHANGED <<jar, main_class, proc_args, data, args, classpath_separator, cmd_args>>
  /\ UNCHANGED <<files, archive, grabbed, calls, pc, res, err, ops>>
  /\ UNCHANGED <<libVars, bulkVars, flowVars, procVars, pureVars>>

\* The arguments: each one expanded in turn, the first failure returned.  The
\* processor's arguments and the data map are read here for the first time.
BuildArgs ==
  /\ qpc = "args"
  /\ \E n \in 0..MaxArgs : \E templates \in [1..n -> ProcArgs] : \E toks \in TokenMaps :
       LET r == ExpandArgs(toks, templates, <<>>)
       IN /\ proc_args' = templates
          /\ data' = toks
          /\ args' = r.args
          /\ IF r.st = "ok"
               THEN qpc' = "spawn" /\ qres' = qres
               ELSE PreflightFails(IF r.st = "panic" THEN "panic" ELSE "bad_argument")
  /\ UNCHANGED <<jar, main_class, proc_classpath, lib_files, classpath, dep_err,
                 classpath_separator, cmd_args>>
  /\ UNCHANGED <<files, archive, grabbed, calls, pc, res, err, ops>>
  /\ UNCHANGED <<libVars, bulkVars, flowVars, procVars, pureVars>>

\* Command::new("java").args(cmd_args).spawn()?: -cp, the classpath joined with
\* the separator of the platform, the main class, the arguments.
SpawnTool ==
  /\ qpc = "spawn"
  /\ \E separator \in {":", ";"}, spawned \in BOOLEAN :
       /\ classpath_separator' = separator
       /\ cmd_args' = <<"-cp", join(classpath, separator), main_class>> \o args
       /\ qres' = IF spawned THEN "spawned" ELSE "spawn_failed"
  /\ qpc' = "done"
  /\ UNCHANGED <<jar, main_class, proc_classpath, lib_files, classpath, dep_err,
                 proc_args, data, args>>
  /\ UNCHANGED <<files, archive, grabbed, calls, pc, res, err, ops>>
  /\ UNCHANGED <<libVars, bulkVars, flowVars, procVars, pureVars>>

\* No preflight in this behaviour.
NoPreflight ==
  /\ qpc = "off"
  /\ jar = Jar("missing", <<>>)
  /\ main_class = ""
  /\ proc_classpath = <<>>
  /\ lib_files = [dep \in Deps |-> "missing"]
  /\ classpath = <<>>
  /\ dep_err = <<>>
  /\ proc_args = <<>>
  /\ data = NoTokens
  /\ args = <<>>
  /\ classpath_separator = ":"
  /\ cmd_args = <<>>
  /\ qres = "none"

\* ------------------------------------------------------------------ ForgeVersionHandler

\* ForgeVersionInfo.  The forge version of an entry is its place in the index;
\* suffix plays no part in the choice.
McVersions == {"1.19", "1.20.1"}
ForgeVersionInfo(mc, fv, lat, rec) ==
  [mc_version |-> mc, forge_version |-> fv, latest |-> lat, recommended |-> rec]

\* The indexes ForgeVersionHandler::new builds: the promotions name at most one
\* recommended and at most one latest forge version for a game version.
Flag(v, flag) == IF flag = "latest" THEN v.latest ELSE v.recommended
Promoted(vs, mc, flag) == {i \in 1..Len(vs) : vs[i].mc_version = mc /\ Flag(vs[i], flag)}
Indexes ==
  {vs \in UNION {[1..n -> [mc_version : McVersions, latest : BOOLEAN, recommended : BOOLEAN]] :
                   n \in 0..MaxVersions} :
     \A mc \in McVersions :
       /\ Cardinality(Promoted(vs, mc, "latest")) <= 1
       /\ Cardinality(Promoted(vs, mc, "recommended")) <= 1}

\* get_by_mc_version: the entries of the game version, in the order of the index.
get_by_mc_version(vs, mc) == SelectSeq(vs, LAMBDA v : v.mc_version = mc)

\* Iterator::find on the iterator that stands at element `from` of l: the index of
\* the first element from there on that has the flag (0: None), and where the
\* iterator stands afterwards: behind the element found, or at the end.
find(l, from, flag) ==
  LET hits == {i \in from..Len(l) : Flag(l[i], flag)}
      at == IF hits = {} THEN 0 ELSE CHOOSE i \in hits : \A j \in hits : i <= j
  IN [at |-> at, next |-> IF at = 0 THEN Len(l) + 1 ELSE at + 1]

\* A caller asks the handler for the best version of a game version.
\* let mut versions = self.get_by_mc_version(mc_ver).into_iter();
CallGetBestVersion ==
  /\ vpc = "ready"
  /\ \E mc \in McVersions :
       /\ mc_ver' = mc
       /\ versions' = get_by_mc_version(handler, mc)
  /\ cursor' = 1
  /\ vpc' = "iter"
  /\ UNCHANGED <<handler, found, best>>
  /\ UNCHANGED <<fpc, tkind, tsegs, template, tokens, rt, coordVars, digestVars, manifestVars>>
  /\ UNCHANGED <<files, archive, grabbed, calls, pc, res, err, ops>>
  /\ UNCHANGED <<libVars, bulkVars, flowVars, procVars, preVars, dataVars, legacyVars>>

\* versions.find(|v| v.recommended): the receiver of `.or(..)` is evaluated first.
FindRecommended ==
  /\ vpc = "iter"
  /\ LET r == find(versions, cursor, "recommended") IN
       /\ found' = r.at
       /\ cursor' = r.next
  /\ vpc' = "first"
  /\ UNCHANGED <<handler, mc_ver, versions, best>>
  /\ UNCHANGED <<fpc, tkind, tsegs, template, tokens, rt, coordVars, digestVars, manifestVars>>
  /\ UNCHANGED <<files, archive, grabbed, calls, pc, res, err, ops>>
  /\ UNCHANGED <<libVars, bulkVars, flowVars, procVars, preVars, dataVars, legacyVars>>

\* .or(versions.find(|v| v.latest)): the argument is evaluated, on the same
\* iterator, whatever the first find returned; then the Option is chosen.
FindLatestOr ==
  /\ vpc = "first"
  /\ LET r == find(versions, cursor, "latest") IN
       /\ cursor' = r.next
       /\ best' = IF found # 0 THEN <<versions[found]>>
                  ELSE IF r.at # 0 THEN <<versions[r.at]>>
                  ELSE <<>>
  /\ vpc' = "returned"
  /\ UNCHANGED <<handler, mc_ver, versions, found>>
  /\ UNCHANGED <<fpc, tkind, tsegs, template, tokens, rt, coordVars, digestVars, manifestVars>>
  /\ UNCHANGED <<files, archive, grabbed, calls, pc, res, err, ops>>
  /\ UNCHANGED <<libVars, bulkVars, flowVars, procVars, preVars, dataVars, legacyVars>>

\* No version is asked for in this behaviour.
NoVersions ==
  /\ vpc = "off"
  /\ handler = <<>>
  /\ mc_ver = ""
  /\ versions = <<>>
  /\ cursor = 1
  /\ found = 0
  /\ best = <<>>

\* ------------------------------------------------------------------ data preparation

\* env::temp_dir().join("forge_installer"), and PathBuf::join: an absolute
\* path replaces the base instead of being appended to it.
TempDir == "tmp/forge_installer"
Join(base, path) == IF StartsWith(path, "/") THEN path ELSE base \o "/" \o path
EndsWith(str, suffix) ==
  Len(str) >= Len(suffix) /\ SubSeq(str, Len(str) - Len(suffix) + 1, Len(str)) = suffix

\* The entries of the installer archive the data values can name.
EntryNames == {"data/client.lzma"}

\* The values a manifest can give a data entry: a coordinate in brackets, a
\* literal in apostrophes, the name of an archive entry (with and without the
\* leading slash), a name the archive does not hold, and the shortest texts
\* that begin and end with a bracket or an apostrophe.
DataKeys == {"BINPATCH", "MAPPINGS"}
DataValues ==
  {"[g:a:1]", "[g]", "'text'", "'", "/data/client.lzma", "data/client.lzma", "data/none.lzma"}
DataMaps == UNION {[ks -> DataValues] : ks \in {ks \in SUBSET DataKeys : Cardinality(ks) <= MaxData}}

\* extract_file, by names: the name without its leading slash is looked up in
\* the archive; the directories of the target and the target are created.
extract_entry(name, target, writable) ==
  LET path == IF StartsWith(name, "/") THEN SubSeq(name, 2, Len(name)) ELSE name IN
    IF path \notin EntryNames THEN "notfound"
    ELSE IF ~writable THEN "io"
    ELSE "ok"

\* What the loop does with one value: the rewritten value, whether a file was
\* extracted, and how the iteration ends ("next": goes on, "err": `?` returns,
\* "panic": the slice value[1..value.len() - 1] starts behind its end).
Step(kind, value, ok, ret) == [kind |-> kind, value |-> value, ok |-> ok, ret |-> ret]
RewriteValue(value, writable) ==
  IF StartsWith(value, "[") /\ EndsWith(value, "]") THEN
    IF Len(value) < 2 THEN Step("coordinate", value, FALSE, "panic")
    ELSE LET a == ArtifactTryFrom(SubSeq(value, 2, Len(value) - 1)) IN
      IF a.ok THEN Step("coordinate", get_local_path(a.value), TRUE, "next")
              ELSE Step("coordinate", value, FALSE, "err")
  ELSE IF StartsWith(value, "'") /\ EndsWith(value, "'") THEN
    IF Len(value) < 2 THEN Step("literal", value, FALSE, "panic")
    ELSE Step("literal", SubSeq(value, 2, Len(value) - 1), TRUE, "next")
  ELSE LET target == Join(TempDir, value) IN
    Step("extract", target, extract_entry(value, target, writable) = "ok", "next")

\* The keys process inserts after the preparation.
Builtins ==
  [SIDE |-> "client", MINECRAFT_JAR |-> "versions/1.19/1.19.jar", MINECRAFT_VERSION |-> "1.19",
   ROOT |-> "mc", LIBRARY_DIR |-> LibrariesDir]
Insert(map, more) ==
  [key \in DOMAIN map \cup DOMAIN more |-> IF key \in DOMAIN more THEN more[key] ELSE map[key]]

DataFrame ==
  /\ UNCHANGED <<versionVars, legacyVars>>
  /\ UNCHANGED <<fpc, tkind, tsegs, template, tokens, rt, coordVars, digestVars, manifestVars>>
  /\ UNCHANGED <<files, archive, grabbed, calls, pc, res, err, ops>>
  /\ UNCHANGED <<libVars, bulkVars, flowVars, procVars, preVars>>

\* process is entered.  if !self.data.is_empty() { remove_dir_all(&temp);
\* create_dir_all(&temp)?; for (key, value) in &self.data.clone() {
StartData ==
  /\ epc = "ready"
  /\ IF DOMAIN edata = {}
       THEN /\ epc' = "insert"
            /\ UNCHANGED <<snapshot, pending, eres>>
       ELSE \E created \in BOOLEAN :
              IF created
                THEN /\ epc' = "loop"
                     /\ snapshot' = edata
                     /\ pending' = DOMAIN edata
                     /\ eres' = eres
                ELSE /\ epc' = "done"
                     /\ eres' = "io"
                     /\ UNCHANGED <<snapshot, pending>>
  /\ UNCHANGED <<edata, eerr, temp, elog, handled>>
  /\ DataFrame

\* One iteration of the loop; a HashMap is iterated in no particular order.
RewriteEntry ==
  /\ epc = "loop"
  /\ pending # {}
  /\ \E key \in pending, writable \in BOOLEAN :
       LET r == RewriteValue(snapshot[key], writable) IN
         /\ pending' = pending \ {key}
         /\ elog' = Append(elog, [key |-> key, kind |-> r.kind, ok |-> r.ok])
         /\ IF r.ret = "next"
              THEN /\ edata' = [edata EXCEPT ![key] = r.value]
                   /\ temp' = IF r.kind = "extract" /\ r.ok THEN temp \cup {r.value} ELSE temp
                   /\ eerr' = IF r.kind = "extract" /\ ~r.ok
                                THEN Append(eerr, snapshot[key]) ELSE eerr
                   /\ UNCHANGED <<epc, eres>>
              ELSE /\ epc' = "done"
                   /\ eres' = IF r.ret = "panic" THEN "panic" ELSE "coordinate"
                   /\ UNCHANGED <<edata, temp, eerr>>
  /\ UNCHANGED <<snapshot, handled>>
  /\ DataFrame

\* if !err.is_empty() { return Err("Failed to extract files from archive: ..") }
EndLoop ==
  /\ epc = "loop"
  /\ pending = {}
  /\ IF eerr # <<>> THEN epc' = "done" /\ eres' = "extract"
                    ELSE epc' = "insert" /\ eres' = eres
  /\ UNCHANGED <<edata, snapshot, pending, eerr, temp, elog, handled>>
  /\ DataFrame

\* self.data.insert("SIDE", ..) .. self.data.insert("LIBRARY_DIR", ..)
InsertBuiltins ==
  /\ epc = "insert"
  /\ edata' = Insert(edata, Builtins)
  /\ epc' = "processors"
  /\ UNCHANGED <<snapshot, pending, eerr, temp, elog, handled, eres>>
  /\ DataFrame

\* for proc in &self.processors: a processor is handled; it borrows &self.data.
HandleProcessor ==
  /\ epc = "processors"
  /\ handled < MaxProcs
  /\ handled' = handled + 1
  /\ \E failed \in BOOLEAN :
       IF failed THEN epc' = "done" /\ eres' = "processor"
                 ELSE UNCHANGED <<epc, eres>>
  /\ UNCHANGED <<edata, snapshot, pending, eerr, temp, elog>>
  /\ DataFrame

\* The processors are through: Ok(()).
ProcessorsDone ==
  /\ epc = "processors"
  /\ epc' = "done"
  /\ eres' = "ok"
  /\ UNCHANGED <<edata, snapshot, pending, eerr, temp, elog, handled>>
  /\ DataFrame

\* No data is prepared in this behaviour.
NoData ==
  /\ epc = "off"
  /\ edata = <<>>
  /\ snapshot = <<>>
  /\ pending = {}
  /\ eerr = <<>>
  /\ temp = {}
  /\ elog = <<>>
  /\ handled = 0
  /\ eres = "none"

\* ------------------------------------------------------------------ install_forge (V1)

\* The test with the failed list ignored.
HasFailures_never(failed) == FALSE

\* if bad.len() > 0
HasFailures(failed) == Len(failed) > 0

LegacyFrame ==
  /\ UNCHANGED <<procVars, preVars, versionVars, dataVars>>
  /\ UNCHANGED <<fpc, tkind, tsegs, template, tokens, rt, coordVars, digestVars, manifestVars>>
  /\ UNCHANGED libVars
  /\ UNCHANGED flowVars

\* install_forge returns Err; `listed` are the descriptors its message lists.
LegacyFail(listed) ==
  /\ lpc' = "done"
  /\ lres' = "err"
  /\ lreport' = listed

\* The vanilla client jar is fetched and, unless the json is inherited, copied
\* (or copied and stripped) to the version folder; each step can fail (`?`).
LegacyClientJar ==
  /\ lpc = "ready"
  /\ \E ok \in BOOLEAN :
       IF ok THEN lpc' = "libraries" /\ UNCHANGED <<lres, lreport>>
             ELSE LegacyFail(<<>>)
  /\ UNCHANGED <<version_json, library_file>>
  /\ UNCHANGED <<files, archive, grabbed, calls, pc, res, err, ops>>
  /\ UNCHANGED bulkVars
  /\ LegacyFrame

\* self.grabbed = vec![]; let mut bad = vec![];
\* download_installed_libraries(true, .., &libraries, &mut self.grabbed, &mut bad, ..)
LegacyCallBulk ==
  /\ lpc = "libraries"
  /\ pc = "idle"
  /\ lpc' = "bulk"
  /\ pc' = "b_loop"
  /\ grabbed' = <<>>
  /\ bad' = <<>>
  /\ is_client' = TRUE
  /\ \E n \in 0..MaxLibs : nlibs' = n
  /\ bi' = 1
  /\ progress' = 1
  /\ blib' = NoForgeLib
  /\ res' = "none" /\ err' = "" /\ ops' = <<>>
  /\ UNCHANGED <<version_json, library_file, lreport, lres>>
  /\ UNCHANGED <<files, archive, calls>>
  /\ LegacyFrame

\* .await?; if bad.len() > 0 { Err("These libraries failed to download. ..{list}") }
LegacyBulkReturned ==
  /\ lpc = "bulk"
  /\ pc = "ret"
  /\ pc' = "idle"
  /\ IF res = "err" THEN LegacyFail(<<>>)
     ELSE IF HasFailures(bad) THEN LegacyFail(bad)
     ELSE lpc' = "mod_list" /\ UNCHANGED <<lres, lreport>>
  /\ UNCHANGED <<version_json, library_file>>
  /\ UNCHANGED <<files, archive, grabbed, calls, res, err, ops>>
  /\ UNCHANGED bulkVars
  /\ LegacyFrame

\* create_dir_all(target_library_file.parent())?; then the mod list: "absolute"
\* canonicalizes a path and unwraps, "none" does nothing, anything else saves
\* mod_list.json and fails when that fails.
LegacyModList ==
  /\ lpc = "mod_list"
  /\ \E outcome \in {"ok", "err", "panic"} :
       IF outcome = "ok" THEN lpc' = "write" /\ UNCHANGED <<lres, lreport>>
       ELSE /\ lpc' = "done"
            /\ lres' = outcome
            /\ lreport' = <<>>
  /\ UNCHANGED <<version_json, library_file>>
  /\ UNCHANGED <<files, archive, grabbed, calls, pc, res, err, ops>>
  /\ UNCHANGED bulkVars
  /\ LegacyFrame

\* serde_json::to_writer_pretty(File::create(&version_json_file)?, &output)?
LegacyWriteVersion ==
  /\ lpc = "write"
  /\ \E created \in BOOLEAN, written \in BOOLEAN :
       /\ version_json' = created
       /\ IF created /\ written THEN lpc' = "extract" /\ UNCHANGED <<lres, lreport>>
                                ELSE LegacyFail(<<>>)
  /\ UNCHANGED library_file
  /\ UNCHANGED <<files, archive, grabbed, calls, pc, res, err, ops>>
  /\ UNCHANGED bulkVars
  /\ LegacyFrame

\* self.archive.by_name(&profile.install.file_path)?;
\* io::copy(contained_file, &mut File::create(target_library_file)?)?
LegacyExtractLibrary ==
  /\ lpc = "extract"
  /\ \E contained \in BOOLEAN, created \in BOOLEAN, copied \in BOOLEAN :
       /\ library_file' = (contained /\ created)
       /\ IF contained /\ created /\ copied
            THEN lpc' = "done" /\ lres' = "ok" /\ lreport' = lreport
            ELSE LegacyFail(<<>>)
  /\ UNCHANGED version_json
  /\ UNCHANGED <<files, archive, grabbed, calls, pc, res, err, ops>>
  /\ UNCHANGED bulkVars
  /\ LegacyFrame

\* The V1 branch is not run in this behaviour.
NoLegacy ==
  /\ lpc = "off"
  /\ version_json = FALSE
  /\ library_file = FALSE
  /\ lreport = <<>>
  /\ lres = "none"

NoExtra == NoVersions /\ NoData /\ NoLegacy

\* No call of a pure function in this behaviour.
NoPure == NoReplace /\ NoCoordinate /\ NoDigest /\ NoManifest /\ NoExtra

\* No resolution and no install in this behaviour.
NoInstall ==
  /\ files = [a \in Artifacts |-> Absent]
  /\ archive = [a \in Artifacts |-> Absent]
  /\ ipc = "off"
  /\ version_libs = <<>>
  /\ profile_libs = <<>>
  /\ has_tasks = FALSE
  /\ optionals = {}
  /\ idx = 1
  /\ output = <<>>
  /\ results = <<>>
  /\ started = FALSE
  /\ ires = "none"

InitFrame ==
  /\ grabbed = <<>>
  /\ calls = 0
  /\ pc = "idle"
  /\ library = NoLib
  /\ enabled = FALSE
  /\ ndirs = 0
  /\ k = 1
  /\ glen = 0
  /\ res = "none"
  /\ err = ""
  /\ ops = <<>>
  /\ is_client = FALSE
  /\ nlibs = 0
  /\ bi = 1
  /\ blib = NoForgeLib
  /\ bad = <<>>
  /\ progress = 1

\* The resolution API called directly, on any libraries directory and archive.
Init ==
  /\ NoPipeline
  /\ NoPreflight
  /\ NoPure
  /\ files \in [Artifacts -> FileState]
  /\ archive \in [Artifacts -> FileState]
  /\ InitFrame
  /\ ipc = "harness"
  /\ version_libs = <<>>
  /\ profile_libs = <<>>
  /\ has_tasks = FALSE
  /\ optionals = {}
  /\ idx = 1
  /\ output = <<>>
  /\ results = <<>>
  /\ started = FALSE
  /\ ires = "none"

\* The libraries a manifest of the install runs declares: no download entry; a url
\* with and without a digest; a digest with an empty url.
ManifestLibraries ==
  {l \in MojangLibraries :
     \/ ~l.has_artifact
     \/ l.has_artifact /\ l.url = "u"
     \/ l.has_artifact /\ l.url = "" /\ l.sha1 # None}

\* Sequences over S of length n.
SeqsOfLen(S, n) == [1..n -> S]

\* A V2 install into a fresh game directory: the manifest (at most MaxLibs libraries
\* over both lists), the predicate and the archive are the inputs.
InitInstall ==
  /\ NoPipeline
  /\ NoPreflight
  /\ NoPure
  /\ files = [a \in Artifacts |-> Absent]
  /\ archive \in [Artifacts -> FileState]
  /\ InitFrame
  /\ ipc = "start"
  /\ \E n \in 0..MaxLibs, m \in 0..MaxLibs :
       /\ n + m <= MaxLibs
       /\ version_libs \in SeqsOfLen(ManifestLibraries \cup ForgeEntries, n)
       /\ profile_libs \in SeqsOfLen(ManifestLibraries \cup ForgeEntries, m)
  /\ has_tasks \in BOOLEAN
  /\ optionals \in {Artifacts, {"a"}}
  /\ idx = 1
  /\ output = <<>>
  /\ results = <<>>
  /\ started = FALSE
  /\ ires = "none"

Next ==
  \/ CallDownloadLibrary
  \/ CheckOptional
  \/ CheckLocal
  \/ TryExtract
  \/ TryDir
  \/ Remote
  \/ CallBulk
  \/ BulkConsider
  \/ BulkFetch
  \/ BulkAdvance
  \/ BulkDone
  \/ Return

Spec == Init /\ [][Next]_vars

NextInstall ==
  \/ Prepare
  \/ VanillaClientJar
  \/ SubmitLibrary
  \/ SkipLibrary
  \/ CheckOptional
  \/ CheckLocal
  \/ TryExtract
  \/ Remote
  \/ LibraryReturned
  \/ LibrariesDone
  \/ RunProcessors

SpecInstall == InitInstall /\ [][NextInstall]_vars

\* PostProcessors::process on the processors of a profile, run up to MaxRuns times
\* on the same game directory.
InitPipeline ==
  /\ NoPure
  /\ NoPreflight
  /\ files = [a \in Artifacts |-> Absent]
  /\ archive = [a \in Artifacts |-> Absent]
  /\ InitFrame
  /\ ipc = "pipeline"
  /\ version_libs = <<>>
  /\ profile_libs = <<>>
  /\ has_tasks = TRUE
  /\ optionals = {}
  /\ idx = 1
  /\ output = <<>>
  /\ results = <<>>
  /\ started = TRUE
  /\ ires = "none"
  /\ outs = [o \in OutPaths |-> Absent]
  /\ \E n \in 0..MaxProcs : procs \in SeqsOfLen(Processors, n)
  /\ runs = 0
  /\ tampers = 0
  /\ ppc = "idle"
  /\ pi = 1
  /\ todo = {}
  /\ miss = FALSE
  /\ perr = FALSE
  /\ valid0 = FALSE
  /\ validT = FALSE
  /\ exit = "none"
  /\ plog = <<>>
  /\ pres = "none"

NextPipeline ==
  \/ Tamper
  \/ StartPipeline
  \/ BeginProcessor
  \/ CacheCheck
  \/ CacheDecide
  \/ Preflight
  \/ Invoke
  \/ Validate
  \/ ValidateDecide
  \/ PipelineReturn

SpecPipeline == InitPipeline /\ [][NextPipeline]_vars

\* replace_tokens called once, on a template over the alphabet, a template built
\* from sections, or one of the examples.
InitTokens ==
  /\ InitFrame
  /\ NoInstall
  /\ NoPipeline
  /\ NoPreflight
  /\ NoExtra
  /\ NoCoordinate
  /\ NoDigest
  /\ NoManifest
  /\ fpc = "ready"
  /\ tokens \in TokenMaps
  /\ rt = RtOk("")
  /\ \/ /\ tkind = "raw"
        /\ tsegs = <<>>
        /\ template \in StringsUpTo(MaxTemplateLen) \cup Examples
     \/ /\ tkind = "segs"
        /\ \E n \in 1..MaxSegs : tsegs \in SeqsOfLen(Sections, n)
        /\ template = Render(tsegs)

NextTokens == ApplyReplaceTokens

SpecTokens == InitTokens /\ [][NextTokens]_vars

\* A coordinate text is parsed and its descriptor is asked for.
InitCoordinate ==
  /\ InitFrame
  /\ NoInstall
  /\ NoPipeline
  /\ NoPreflight
  /\ NoExtra
  /\ NoReplace
  /\ NoDigest
  /\ NoManifest
  /\ cpc = "text"
  /\ coordinate \in CoordinateTexts
  /\ artifact = ArtErr
  /\ descriptor = ""

NextCoordinate ==
  \/ ParseArtifact
  \/ GetDescriptor

SpecCoordinate == InitCoordinate /\ [][NextCoordinate]_vars

\* A digest is made from an array or from the bytes of a reader, written as
\* text and read back; or a text is read that no digest was written as.
InitDigest ==
  /\ InitFrame
  /\ NoInstall
  /\ NoPipeline
  /\ NoPreflight
  /\ NoExtra
  /\ NoReplace
  /\ NoCoordinate
  /\ NoManifest
  /\ digest = <<>>
  /\ decoded = DecErr("")
  /\ \/ /\ dpc = "value"
        /\ buffer \in NewValues
        /\ hex = ""
     \/ /\ dpc = "reader"
        /\ buffer \in Buffers
        /\ hex = ""
     \/ /\ dpc = "hextext"
        /\ buffer = <<>>
        /\ hex \in HexTexts

NextDigest ==
  \/ NewSha1Sum
  \/ FromReader
  \/ IntoString
  \/ TryFromString
  \/ IntoStringDecoded

SpecDigest == InitDigest /\ [][NextDigest]_vars

\* from_reader is called once on the bytes of a manifest.
InitManifest ==
  /\ InitFrame
  /\ NoInstall
  /\ NoPipeline
  /\ NoPreflight
  /\ NoExtra
  /\ NoReplace
  /\ NoCoordinate
  /\ NoDigest
  /\ mpc = "ready"
  /\ doc \in Documents
  /\ result = NotParsed
  /\ result2 = NotParsed
  /\ printed = <<>>
  /\ profile = NoProfile

NextManifest == ProfileFromReader

SpecManifest == InitManifest /\ [][NextManifest]_vars

\* The step of one processor that is not a cache hit, from the test of its jar
\* to the spawn of the tool.
InitPreflight ==
  /\ InitFrame
  /\ NoInstall
  /\ NoPipeline
  /\ NoPure
  /\ qpc = "jar"
  /\ jar \in Jars
  /\ main_class = ""
  /\ proc_classpath = <<>>
  /\ lib_files = [dep \in Deps |-> "missing"]
  /\ classpath = <<>>
  /\ dep_err = <<>>
  /\ proc_args = <<>>
  /\ data = NoTokens
  /\ args = <<>>
  /\ classpath_separator = ":"
  /\ cmd_args = <<>>
  /\ qres = "none"

NextPreflight ==
  \/ CheckJar
  \/ ReadMainClass
  \/ BuildClasspath
  \/ BuildArgs
  \/ SpawnTool

SpecPreflight == InitPreflight /\ [][NextPreflight]_vars

\* The handler is asked once for the best version of a game version.
InitVersions ==
  /\ InitFrame
  /\ NoInstall
  /\ NoPipeline
  /\ NoPreflight
  /\ NoReplace
  /\ NoCoordinate
  /\ NoDigest
  /\ NoManifest
  /\ NoData
  /\ NoLegacy
  /\ vpc = "ready"
  /\ handler \in {[i \in 1..Len(vs) |->
                     ForgeVersionInfo(vs[i].mc_version, i, vs[i].latest, vs[i].recommended)] :
                   vs \in Indexes}
  /\ mc_ver = ""
  /\ versions = <<>>
  /\ cursor = 1
  /\ found = 0
  /\ best = <<>>

NextVersions ==
  \/ CallGetBestVersion
  \/ FindRecommended
  \/ FindLatestOr

SpecVersions == InitVersions /\ [][NextVersions]_vars

\* process is called once on post-processors made from a manifest's data.
InitData ==
  /\ InitFrame
  /\ NoInstall
  /\ NoPipeline
  /\ NoPreflight
  /\ NoReplace
  /\ NoCoordinate
  /\ NoDigest
  /\ NoManifest
  /\ NoVersions
  /\ NoLegacy
  /\ epc = "ready"
  /\ edata \in DataMaps
  /\ snapshot = edata
  /\ pending = {}
  /\ eerr = <<>>
  /\ temp = {}
  /\ elog = <<>>
  /\ handled = 0
  /\ eres = "none"

NextData ==
  \/ StartData
  \/ RewriteEntry
  \/ EndLoop
  \/ InsertBuiltins
  \/ HandleProcessor
  \/ ProcessorsDone

SpecData == InitData /\ [][NextData]_vars

\* install_forge on a V1 profile, on any libraries directory and archive.
InitLegacy ==
  /\ NoPipeline
  /\ NoPreflight
  /\ NoReplace
  /\ NoCoordinate
  /\ NoDigest
  /\ NoManifest
  /\ NoVersions
  /\ NoData
  /\ files \in [Artifacts -> FileState]
  /\ archive \in [Artifacts -> FileState]
  /\ InitFrame
  /\ ipc = "legacy"
  /\ version_libs = <<>>
  /\ profile_libs = <<>>
  /\ has_tasks = FALSE
  /\ optionals = {}
  /\ idx = 1
  /\ output = <<>>
  /\ results = <<>>
  /\ started = FALSE
  /\ ires = "none"
  /\ lpc = "ready"
  /\ version_json = FALSE
  /\ library_file = FALSE
  /\ lreport = <<>>
  /\ lres = "none"

NextLegacy ==
  \/ LegacyClientJar
  \/ LegacyCallBulk
  \/ BulkConsider
  \/ BulkFetch
  \/ BulkAdvance
  \/ BulkDone
  \/ LegacyBulkReturned
  \/ LegacyModList
  \/ LegacyWriteVersion
  \/ LegacyExtractLibrary

SpecLegacy == InitLegacy /\ [][NextLegacy]_vars

\* ------------------------------------------------------------------ properties

\* download_library has returned (the frame still holds its arguments and its log).
LibReturned == pc = "ret" /\ library # NoLib

\* The source of a log entry satisfied the requirement.
Yielded(e) == e.out \in {"valid", "trusted", "copied"}

\* No remove_file failed during the call.
NoDeleteFailure(log) == \A i \in 1..Len(log) : log[i].rm # "fail"

\* The target holds a file that satisfies the requirement's digest (if it has one).
TargetSatisfies(fs, lib) ==
  /\ fs[lib.name] # Absent
  /\ Download(lib).sha1 # None => Sha1(fs[lib.name]) = Download(lib).sha1

\* C1: whenever download_library returns success for a library the predicate
\* accepts, a file exists at the target path and matches the expected digest if
\* there is one (so every call that does not produce such a file returns an error).
C1_SuccessMeansValidFile ==
  (LibReturned /\ enabled /\ res = "ok") => TargetSatisfies(files, library)

\* C2: when the downloaded bytes do not match the expected digest the file is
\* deleted, download_library returns an error and nothing is appended to grabbed.
C2_MismatchedDownloadFails ==
  (/\ LibReturned
   /\ ops # <<>>
   /\ ops[Len(ops)].src = "remote"
   /\ ops[Len(ops)].out = "mismatch"
   /\ ops[Len(ops)].rm = "ok")
    => (files[Target] = Absent /\ res = "err" /\ Len(grabbed) = glen)

\* C3: when the archive entry does not match the expected digest, the extracted file
\* is deleted and resolution goes on to the next source; the step does not report
\* success and does not append to grabbed.
C3_MismatchedExtractionFallsThrough ==
  [][(/\ pc = "extract"
      /\ archive[Target] # Absent
      /\ Sha1Of # None
      /\ Sha1(archive[Target]) # Sha1Of
      /\ files'[Target] = Absent)
       => (pc' \in {"dirs", "remote"} /\ res' = "none" /\ grabbed' = grabbed)]_vars

\* C4: a stale local file of the wrong digest is deleted and the library is
\* re-resolved; if no other source yields a matching digest the call fails and no
\* file is left at the target.
C4_StaleCopyThenFailure ==
  (/\ LibReturned
   /\ enabled
   /\ ops # <<>>
   /\ ops[1].src = "local" /\ ops[1].out = "mismatch" /\ ops[1].rm = "ok"
   /\ NoDeleteFailure(ops)
   /\ \A i \in 1..Len(ops) : ~Yielded(ops[i]))
    => (res = "err" /\ files[Target] = Absent)

\* Rank of a source in the resolution order.
SrcRank(src, n) ==
  CASE src = "local" -> 0
    [] src = "archive" -> 1
    [] src = "dir" -> 1 + n
    [] OTHER -> NumDirs + 2

AllSources == {<<"local", 0>>, <<"archive", 0>>, <<"remote", 0>>}
                \cup {<<"dir", n>> : n \in 1..ndirs}

\* The log is in resolution order.
Ordered(log) ==
  \A i, j \in 1..Len(log) :
    i < j => SrcRank(log[i].src, log[i].n) < SrcRank(log[j].src, log[j].n)

\* Nothing is consulted after a source that satisfied the requirement.
FirstWins(log) == \A i \in 1..Len(log) : Yielded(log[i]) => i = Len(log)

\* Every source of srcs that precedes a consulted one was consulted before it and
\* did not satisfy the requirement.
EarlierAllFailed(log, srcs) ==
  \A j \in 1..Len(log) : \A s \in srcs :
    SrcRank(s[1], s[2]) < SrcRank(log[j].src, log[j].n)
      => \E i \in 1..(j - 1) : log[i].src = s[1] /\ log[i].n = s[2] /\ ~Yielded(log[i])

\* C5 as stated: the sources are consulted strictly in the order local copy,
\* archive, additional directories, remote; nothing follows a success; a source is
\* tried only after every earlier one was absent or failed.
C5_StrictOrder ==
  library # NoLib
    => Ordered(ops) /\ FirstWins(ops) /\ EarlierAllFailed(ops, AllSources)

\* C5 amended: the same, where the additional directories count as sources only for
\* a requirement that carries an expected digest (without one they are skipped).
C5_OrderWithDigestGatedDirs ==
  library # NoLib
    => /\ Ordered(ops)
       /\ FirstWins(ops)
       /\ EarlierAllFailed(ops, IF Sha1Of = None
                                  THEN {s \in AllSources : s[1] # "dir"}
                                  ELSE AllSources)

\* C5 witness: a call that went through all four kinds of source, in order.
C5_Witness ==
  /\ LibReturned
  /\ ndirs = NumDirs
  /\ Len(ops) = NumDirs + 3
  /\ ops[Len(ops)].src = "remote"

\* C6: every successful resolution of an enabled library appends its coordinate to
\* grabbed exactly once, whichever source satisfied it.
C6_GrabbedOncePerSuccess ==
  (LibReturned /\ enabled /\ res = "ok") => grabbed = SubSeq(grabbed, 1, glen) \o <<Target>>

\* Only the local copy was looked at: no archive read, no directory copy, no request.
NoFetch(log) == \A i \in 1..Len(log) : log[i].src = "local"

\* C7: resolving a library whose target already holds a digest-valid file reads no
\* archive entry, copies nothing, sends no request and leaves the file unchanged,
\* in download_library and in download_installed_libraries.
C7_Idempotent ==
  [][/\ (pc = "local" /\ TargetSatisfies(files, library))
          => (/\ pc' = "ret" /\ res' = "ok"
              /\ files' = files /\ grabbed' = grabbed /\ NoFetch(ops'))
     /\ (/\ pc = "b_loop"
         /\ blib' # NoForgeLib
         /\ is_side(blib', Side) /\ blib'.enabled
         /\ files[blib'.name] # Absent
         /\ Contains(blib'.checksums, Sha1(files[blib'.name])))
          => (/\ pc' = "b_next"
              /\ files' = files /\ grabbed' = grabbed /\ bad' = bad /\ NoFetch(ops'))]_vars

\* C7 witness: a second call for a library that the first call fetched returns
\* after validating the local copy only.
C7_Witness ==
  /\ LibReturned
  /\ calls = 2
  /\ enabled
  /\ Sha1Of # None
  /\ grabbed = <<Target>>
  /\ ops = <<Ev("local", 0, "valid", "none")>>
  /\ res = "ok"

\* Library i of the run returned an error.
Failed(i) == results[i].res = "err"

\* Library i declares a download entry with a non-empty url.
HasUrl(i) ==
  Libraries[i].has_artifact /\ Libraries[i].url # None /\ Libraries[i].url # ""

\* The library phase of install_forge is over.
LibrariesResolved ==
  ipc \in {"processors", "done"} /\ Len(results) = Len(Libraries)

\* The digest of library i matches no source: the archive has no matching entry, and
\* in its log nothing matched and no deletion failed.
NeverMatched(i) ==
  /\ Download(Libraries[i]).sha1 # None
  /\ \/ archive[Libraries[i].name] = Absent
     \/ Sha1(archive[Libraries[i].name]) # Download(Libraries[i]).sha1
  /\ NoDeleteFailure(results[i].ops)
  /\ \A n \in 1..Len(results[i].ops) : ~Yielded(results[i].ops[n])

\* Library i was served matching bytes by its url.
ServedValid(i) ==
  /\ results[i].ops # <<>>
  /\ results[i].ops[Len(results[i].ops)].src = "remote"
  /\ results[i].ops[Len(results[i].ops)].out = "valid"

\* C8: a manifest of two libraries, one with a correct digest and a reachable url,
\* one whose digest matches no source: the run ends with exactly one grabbed and
\* one failed artifact, and nothing at the failed artifact's target path.
C8_OneGrabbedOneFailed ==
  \A i, j \in 1..2 :
    (/\ LibrariesResolved
     /\ Len(Libraries) = 2
     /\ i # j
     /\ Libraries[i].name # Libraries[j].name
     /\ {Libraries[i].name, Libraries[j].name} \subseteq optionals
     /\ HasUrl(i) /\ Download(Libraries[i]).sha1 # None /\ ServedValid(i)
     /\ HasUrl(j) /\ NeverMatched(j))
      => (/\ Len(grabbed) = 1
          /\ Len(output) = 1
          /\ files[Libraries[j].name] = Absent)

\* C9: a requirement without a url that no earlier source satisfied makes
\* download_library fail with the missing-url error, with no request sent and
\* nothing appended to grabbed.
C9_MissingUrlFails ==
  (/\ LibReturned
   /\ enabled
   /\ MissingUrl(Download(library).url)
   /\ err # "io"
   /\ NoDeleteFailure(ops)
   /\ \A i \in 1..Len(ops) : ~Yielded(ops[i]))
    => (/\ res = "err" /\ err = "missing_url"
        /\ \A i \in 1..Len(ops) : ops[i].src # "remote"
        /\ Len(grabbed) = glen)

\* The run is aborted before the processors: they never start, and install_forge
\* returns an error.
AbortedBeforeProcessors == ~started /\ ipc # "processors" /\ (ipc = "done" => ires = "err")

C11_DisabledIsNoOp ==
  [][(pc = "optional" /\ ~enabled)
       => (/\ pc' = "ret" /\ res' = "ok"
           /\ files' = files /\ archive' = archive /\ grabbed' = grabbed
           /\ ops' = <<>>)]_vars

\* C11 witness: a rejected library returned success with a digest-mismatched file
\* still at its target.
C11_Witness ==
  /\ LibReturned
  /\ ~enabled
  /\ res = "ok"
  /\ Sha1Of # None
  /\ files[Target] # Absent
  /\ Sha1(files[Target]) # Sha1Of
  /\ Len(grabbed) = glen

\* The cache loop of the current processor is over and the processor is skipped:
\* the loop goes to the next processor with nothing but the skip in the log.
Skipped == ppc' = "begin" /\ pi' = pi + 1 /\ plog' = Append(plog, Pv(pi, "skip"))

\* C12: a processor with a non-empty output set is skipped (no preflight, no
\* classpath, no argument expansion, no tool invocation) if and only if every
\* declared output exists with a digest equal to its expected value; an output whose
\* bytes were changed therefore sends the processor on to its preflight and tool.
C12_SkippedIffOutputsValid ==
  [][(ppc = "cache" /\ todo = {})
       => /\ Skipped <=> valid0
          /\ ~valid0 => (ppc' = "preflight" /\ plog' = plog)]_vars

\* The step of the current processor ends with success.
StepSucceeded == ppc' = "begin" /\ pi' = pi + 1 /\ plog' = Append(plog, Pv(pi, "ok"))

\* C13: a step that invoked the tool succeeds if and only if, when the tool had
\* terminated, every declared output existed and matched its expected digest,
\* whatever the exit status of the tool was.
C13_SuccessIffOutputsValid ==
  [][(ppc = "validate" /\ ppc' # "validate")
       => /\ exit \in {"zero", "nonzero"}
          /\ StepSucceeded <=> validT
          /\ ~validT => (ppc' = "done" /\ pres' = "err")]_vars

\* C13 witness: a step with declared outputs succeeded although its tool ended with
\* a non-zero exit status.
C13_Witness ==
  /\ ppc = "begin"
  /\ pi > 1
  /\ Declared(procs[pi - 1]) # {}
  /\ exit = "nonzero"
  /\ validT
  /\ plog[Len(plog)] = Pv(pi - 1, "ok")

\* The log handles the processors one after the other, in the order of the list,
\* each from its beginning to its end before the next begins.
InManifestOrder(log) ==
  /\ log # <<>> => log[1] = Pv(1, "begin")
  /\ \A i \in 1..(Len(log) - 1) :
       \/ log[i + 1].p = log[i].p /\ log[i + 1].ev # "begin"
       \/ /\ log[i + 1] = Pv(log[i].p + 1, "begin")
          /\ log[i].ev \in {"skip", "ok"}

\* A failure is the last thing the log holds.
FailureIsLast(log) == \A i \in 1..Len(log) : log[i].ev = "fail" => i = Len(log)

Replaced == fpc = "done"

\* C15 as stated: with an empty token map, the template it's \{escaped\} gives the
\* text it's {escaped}.
C15_ApostropheExample ==
  (Replaced /\ template = ExampleApostrophe /\ tokens = NoTokens)
    => rt = RtOk("it's {escaped}")

\* C15 amended: with an empty token map, the template it's \{escaped\} fails as
\* malformed, because its apostrophe opens a quoted section that is never closed;
\* with the apostrophe escaped too, it\'s \{escaped\}, the result is it's {escaped}.
C15_ApostropheOpensQuote ==
  /\ (Replaced /\ template = ExampleApostrophe /\ tokens = NoTokens)
       => rt = RtErr("unclosed")
  /\ (Replaced /\ template = ExampleEscapedApostrophe /\ tokens = NoTokens)
       => rt = RtOk("it's {escaped}")

\* C15 witness: the call on the example has returned.
C15_Witness ==
  /\ Replaced
  /\ template = ExampleApostrophe
  /\ tokens = NoTokens
  /\ rt.st = "err"

\* What a section stands for in the result.
ExpectSect(toks, sec) == IF sec.kind = "tok" THEN toks[sec.text] ELSE sec.text

RECURSIVE Expect(_, _)
Expect(toks, secs) ==
  IF secs = <<>> THEN "" ELSE ExpectSect(toks, Head(secs)) \o Expect(toks, Tail(secs))

\* Every {name} of the sections names a key of the map.
AllKeysKnown(toks, secs) ==
  \A i \in 1..Len(secs) : secs[i].kind = "tok" => secs[i].text \in DOMAIN toks

\* The template was built from sections of the given kinds only.
BuiltFrom(kinds) ==
  Replaced /\ tkind = "segs" /\ \A i \in 1..Len(tsegs) : tsegs[i].kind \in kinds

\* C16: every unescaped {name} outside a quoted literal is replaced by tokens[name]
\* and every other ordinary character is copied as it is ({"A":"x"} on pre{A}post
\* gives prexpost); a {name} that is not a key of the map makes the call fail.
C16_TokensReplaced ==
  /\ BuiltFrom({"ord", "tok", "esc"})
       => IF AllKeysKnown(tokens, tsegs)
            THEN rt = RtOk(Expect(tokens, tsegs))
            ELSE rt = RtErr("missing_key")
  /\ (Replaced /\ template = ExampleToken /\ "A" \in DOMAIN tokens)
       => rt = RtOk("prexpost")

\* C17: a quoted section is replaced by its own contents without any lookup
\* ('{not a token}' gives {not a token} with an empty map), and a backslash escape
\* inside the quotes emits the escaped character.
C17_QuotedLiteral ==
  /\ BuiltFrom({"quote", "quote_esc"}) => rt = RtOk(Expect(tokens, tsegs))
  /\ (Replaced /\ template = ExampleQuoted) => rt = RtOk("{not a token}")

\* The shape of a template, read character by character: "ok", or what is wrong
\* with it.  open is the character that opened the section the position is in.
RECURSIVE Shape(_, _, _)
Shape(str, i, open) ==
  IF i > Len(str) THEN (IF open = "" THEN "ok" ELSE "unclosed")
  ELSE LET c == SubSeq(str, i, i) IN
    IF c = "\\" THEN (IF i = Len(str) THEN "bad_escape" ELSE Shape(str, i + 2, open))
    ELSE IF open = "" THEN Shape(str, i + 1, IF c \in {"{", "'"} THEN c ELSE "")
    ELSE IF (open = "{" /\ c = "}") \/ (open = "'" /\ c = "'") THEN Shape(str, i + 1, "")
    ELSE Shape(str, i + 1, open)

\* C18: besides a missing key, replace_tokens fails exactly for a backslash at the
\* last position (in or out of a section), a { that is never closed and a ' that is
\* never closed, and it fails with a malformed-template error; a backslash followed
\* by a character X emits X, and X neither opens nor closes a section.
C18_MalformedExactly ==
  /\ Replaced
       => /\ rt.st \in {"ok", "err"}
          /\ Shape(template, 1, "") # "ok" => rt.st = "err"
          /\ (rt.st = "err" /\ rt.why # "missing_key") => rt.why = Shape(template, 1, "")
  /\ BuiltFrom({"esc", "quote_esc"}) => rt = RtOk(Expect(tokens, tsegs))

\* The coordinate was parsed and get_descriptor has returned.
Described == cpc = "described"

\* C19: coordinate round trip.  For every valid coordinate text of the form
\* g:a:v, g:a:v:c, g:a:v@e or g:a:v:c@e, parsing it into an Artifact and
\* calling get_descriptor returns exactly the input text.
C19_CoordinateRoundTrip ==
  (Described /\ coordinate \in ValidCoordinates) => descriptor = coordinate

\* The digest was made from the bytes of a reader or from an array, and its
\* text has been read back.
ReadBack == dpc = "decoded" /\ digest # <<>>

\* C20: digest round trip.  For every byte buffer, the hex text of its digest
\* has exactly 40 characters, and decoding that hex text yields a digest equal
\* to the original.
C20_DigestRoundTrip ==
  /\ (dpc \in {"encoded", "decoded"} /\ digest # <<>>) => Len(hex) = 40
  /\ ReadBack => decoded = DecOk(digest)

\* The digest of a buffer that was read, with a byte below 16 (written with a
\* leading zero) and a nibble written as a letter, has been read back.
C20_Witness ==
  /\ ReadBack
  /\ Len(buffer) <= MaxBufLen
  /\ digest = Sha1Bytes(buffer)
  /\ \E i \in 1..DigestLen : digest[i] < 16
  /\ \E i \in 1..DigestLen : digest[i] % 16 > 9


\* from_reader read the bytes and did not return: it panicked after the parses.
BothFailed == mpc = "panicked" /\ result # NotParsed

\* A value with every required field of its schema.
Complete(v) ==
  \/ v.schema = "V1" /\ V1Required \subseteq v.keys
  \/ v.schema = "V2" /\ V2Required \subseteq v.keys

\* C21: manifest dual-schema parse.  Both parses are made on the same bytes;
\* if exactly one succeeds its value is returned, if both succeed the V1 value
\* is returned, and if both fail from_reader terminates fatally after printing
\* both schema errors.  What is returned is one complete manifest value.
C21_DualSchemaParse ==
  /\ mpc \in {"returned", "panicked"} /\ result # NotParsed
       => result = ParseV1(doc) /\ result2 = ParseV2(doc)
  /\ mpc = "returned" =>
       /\ result.ok \/ result2.ok
       /\ result.ok => profile = result.value
       /\ ~result.ok => profile = result2.value
       /\ Complete(profile)
  /\ BothFailed =>
       /\ ~result.ok /\ ~result2.ok
       /\ printed = <<"Error " \o result.error, "Error " \o result2.error>>
       /\ profile = NoProfile
  /\ (mpc \in {"returned", "panicked"} /\ result # NotParsed /\ ~result.ok /\ ~result2.ok)
       => mpc = "panicked"

\* Both parses succeeded and the V1 value was returned.
C21_Witness ==
  /\ mpc = "returned"
  /\ result.ok /\ result2.ok
  /\ profile.schema = "V1"

\* The step is the fetch of the bulk loop for the library blib: download_file,
\* then extract_file, then the verdict.
BulkFetched == pc = "b_fetch" /\ pc' = "b_next"

\* What the two attempts of that step found, from the log the step leaves.
RemoteFailed(log) == log[2].src = "remote" /\ log[2].out \in {"neterr", "status", "mismatch"}
ArchiveFailed(log) == log[3].src = "archive" /\ log[3].out = "absent"
AllAttemptsFailed(log) == Len(log) = 3 /\ RemoteFailed(log) /\ ArchiveFailed(log)

\* The library's URL is on the official mirror: it names it, or names no URL.
OnMirror(lib) == lib.url \in {None, Mirror}

\* The failure is only a warning.
OnlyWarning(lib, client) == client /\ OnMirror(lib)

\* C22: bulk resolution tolerates partial failure.  A library whose attempts
\* all fail (and whose failure is not only a warning) is appended to the failed
\* list and the loop goes on with the next library; no other step of the call
\* changes the failed list, so at the return it holds every library that truly
\* failed and only those.
C22_FailuresCollected ==
  [][/\ BulkFetched =>
          /\ bad' = IF AllAttemptsFailed(ops') /\ ~OnlyWarning(blib, is_client)
                      THEN Append(bad, blib.name) ELSE bad
          /\ res' = "none"
     /\ (pc \in {"b_loop", "b_next"} /\ pc' \in {"b_loop", "b_next", "b_fetch", "ret"})
          => bad' = bad
     /\ (pc = "b_next" /\ bad # <<>>) => (pc' = "b_loop" /\ bi' = bi + 1 /\ res' = "none")]_vars

\* The first library of the list failed and is in the failed list, and the
\* second one has been fetched and grabbed.
C22_Witness ==
  /\ pc = "b_next"
  /\ bi = 2
  /\ Len(bad) = 1
  /\ Len(ops) = 3 /\ ~AllAttemptsFailed(ops)
  /\ Len(grabbed) = 1 /\ grabbed[1] = blib.name

\* C23: every library that is required for the side and enabled and lacks a
\* digest-verified local copy, a library with no local file included, is
\* attempted by remote download and then by extraction; the call does not
\* abort because a local file is missing.
C23_MissingFileIsAttempted ==
  ~(/\ pc = "ret" /\ res = "err"
    /\ blib # NoForgeLib
    /\ is_side(blib, Side) /\ blib.enabled
    /\ files[blib.name] = Absent
    /\ UrlParses(get_url(blib))
    /\ Len(ops) = 1)

\* C24: the mirror exception.  When all attempts for a library fail, the
\* library is appended to the failed list unless the run is client-side and
\* the library's URL is on the official mirror; in that one case it is added
\* to neither the failed list nor grabbed.  On the server side the same failure
\* is appended to the failed list.
C24_MirrorException ==
  [][(BulkFetched /\ AllAttemptsFailed(ops')) =>
       /\ grabbed' = grabbed
       /\ (is_client /\ OnMirror(blib)) => bad' = bad
       /\ (~is_client \/ ~OnMirror(blib)) => bad' = Append(bad, blib.name)]_vars

\* A client-side failure of a library that names the mirror, left out of both
\* lists; the file it has is the stale one it had.
C24_Witness ==
  /\ pc = "b_next"
  /\ is_client
  /\ blib.url = Mirror
  /\ AllAttemptsFailed(ops)
  /\ bad = <<>>
  /\ grabbed = <<>>

\* The file at the target does not have one of the digests the library names.
Mismatched(cur, checksums) ==
  cur # Absent /\ checksums # <<>> /\ ~Contains(checksums, Sha1(cur))

\* C25: whenever a digest mismatch is detected after a download or an
\* extraction, in per-library and in bulk resolution alike, the mismatched file
\* is removed before the operation returns: after a resolution that failed on a
\* checksum, no digest-mismatched file remains at the target.
C25_MismatchedFileRemoved ==
  /\ (pc = "b_next" /\ AllAttemptsFailed(ops) /\ ops[2].out = "mismatch")
       => ~Mismatched(files[blib.name], blib.checksums)
  /\ (LibReturned /\ NoDeleteFailure(ops)
        /\ \E i \in 1..Len(ops) : ops[i].src \in {"remote", "archive"} /\ ops[i].out = "mismatch")
       => (files[library.name] = Absent \/ TargetSatisfies(files, library))

RECURSIVE Count(_, _)
\* How many times the character ch occurs in str.
Count(str, ch) ==
  IF str = "" THEN 0
  ELSE (IF SubSeq(str, 1, 1) = ch THEN 1 ELSE 0) + Count(SubSeq(str, 2, Len(str)), ch)

RECURSIVE BeforeAt(_)
\* The text before the first "@" (the whole text when there is none).
BeforeAt(str) ==
  IF str = "" \/ SubSeq(str, 1, 1) = "@" THEN ""
  ELSE SubSeq(str, 1, 1) \o BeforeAt(SubSeq(str, 2, Len(str)))

\* The colon-separated segments of the descriptor.
Segments(str) == Count(BeforeAt(str), ":") + 1

\* The group path of the groups coordinates are written with.
GroupPath(g) == IF g = "g" THEN <<"g">> ELSE <<"g", "h">>

\* Artifact::try_from has returned.
Parsed == cpc \in {"parsed", "failed", "described"}

\* C26: Artifact parsing fails exactly when the descriptor (the text before
\* "@") has fewer than 3 colon-separated segments; otherwise it succeeds with
\* group path = first segment split on ".", artifact id = second, version =
\* third, classifier = fourth segment if present, and extension = the text
\* after "@", or jar when there is no "@" suffix.
C26_ParseCoordinate ==
  Parsed =>
    /\ ~artifact.ok <=> Segments(coordinate) < 3
    /\ \A g \in Groups, a \in ArtifactIds, v \in Versions, c \in ClassifierOpts, e \in ExtOpts :
         coordinate = Coordinate(g, a, v, c, e) =>
           /\ artifact.ok
           /\ artifact.value.group_id = GroupPath(g)
           /\ artifact.value.artifact_id = a
           /\ artifact.value.version = v
           /\ artifact.value.classifier = c
           /\ artifact.value.ext = IF e = <<>> THEN "jar" ELSE e[1]

\* A coordinate with a group of two parts, a classifier and no extension has
\* been parsed.
C26_Witness ==
  /\ cpc = "parsed"
  /\ coordinate = "g.h:b-c:1.0:c"
  /\ artifact.value.ext = "jar"

\* The characters of hexadecimal text, and the lowercase ones.
HexChars ==
  {"0", "1", "2", "3", "4", "5", "6", "7", "8", "9",
   "a", "b", "c", "d", "e", "f", "A", "B", "C", "D", "E", "F"}
LowerHexChars ==
  {"0", "1", "2", "3", "4", "5", "6", "7", "8", "9", "a", "b", "c", "d", "e", "f"}
AllIn(str, chars) == \A i \in 1..Len(str) : SubSeq(str, i, i) \in chars

\* C27: digest decoding from text succeeds only for exactly 40 hexadecimal
\* characters (20 bytes) and fails with an error for odd-length input, non-hex
\* input and any other length; re-encoding a decoded digest gives lowercase hex.
C27_DecodeDigest ==
  /\ dpc \in {"decoded", "reencoded"} =>
       /\ Len(decoded.bytes) = (IF decoded.ok THEN 20 ELSE 0)
       /\ ~decoded.ok => decoded.error # ""
  /\ dpc = "decoded" =>
       /\ decoded.ok => (Len(hex) = 40 /\ AllIn(hex, HexChars))
       /\ Len(hex) % 2 = 1 => ~decoded.ok
       /\ ~AllIn(hex, HexChars) => ~decoded.ok
       /\ Len(hex) # 40 => ~decoded.ok
  /\ dpc = "reencoded" => (Len(hex) = 40 /\ AllIn(hex, LowerHexChars))

\* A text of 40 hexadecimal characters with capitals was decoded, and the
\* digest written again.
C27_Witness ==
  /\ dpc = "reencoded"
  /\ hex = Repeat("ab", DigestLen)
  /\ decoded.ok /\ decoded.bytes[1] = 171

\* The local paths of the artifacts of the preflight.
ToolJarPath == "libraries/g/tool/1/tool-1.jar"
PathOf(dep) ==
  IF dep = "g:d1:1" THEN "libraries/g/d1/1/d1-1.jar" ELSE "libraries/g/d2/1/d2-1.jar"

\* The classpath entries that are not present as files, in declared order.
Unresolved == SelectSeq(proc_classpath, LAMBDA dep : lib_files[dep] # "file")

\* The classpath loop has run.
ClasspathBuilt == classpath # <<>>

\* The tool was spawned, or the spawn was tried.
Invoked == cmd_args # <<>>

\* C28: the classpath passed to the tool is the tool jar followed by every
\* classpath entry's local path in declared order; if one or more entries are
\* not present as files, the step fails before the tool is spawned with an
\* error that lists every unresolved entry, not only the first.
C28_Classpath ==
  /\ Invoked =>
       /\ cmd_args[1] = "-cp"
       /\ cmd_args[2] = join(<<ToolJarPath>> \o [i \in 1..Len(proc_classpath) |->
                                                  PathOf(proc_classpath[i])],
                             classpath_separator)
       /\ Unresolved = <<>>
  /\ (ClasspathBuilt /\ Unresolved # <<>>) =>
       /\ qpc = "done" /\ qres = "missing_deps"
       /\ dep_err = Unresolved
       /\ ~Invoked
  /\ qres = "missing_deps" => Unresolved # <<>>

\* Two entries are unresolved, and the error lists both.
C28_Witness ==
  /\ qres = "missing_deps"
  /\ proc_classpath = <<"g:d1:1", "g:d2:1">>
  /\ dep_err = <<"g:d1:1", "g:d2:1">>
  /\ ~Invoked

RECURSIVE Blank(_)
Blank(str) == str = "" \/ (SubSeq(str, 1, 1) = " " /\ Blank(SubSeq(str, 2, Len(str))))

\* The manifest's first Main-Class entry names a class.
HasEntryPoint(lines) ==
  \E i \in 1..Len(lines) :
    /\ StartsWith(lines[i], "Main-Class:")
    /\ \A j \in 1..(i - 1) : ~StartsWith(lines[j], "Main-Class:")
    /\ ~Blank(SubSeq(lines[i], Len("Main-Class:") + 1, Len(lines[i])))

\* The jar is missing, or its manifest has no Main-Class entry or an empty one.
NoEntryPoint ==
  \/ jar.kind \in {"missing", "dir"}
  \/ jar.kind = "jar" /\ ~HasEntryPoint(jar.lines)

\* C29: for a step that is not a cache hit, if the tool jar is missing locally,
\* or its manifest has no (or an empty) Main-Class entry, the step fails with
\* an error that says so and the external tool is not invoked.
C29_MissingEntryPoint ==
  /\ NoEntryPoint =>
       /\ qpc \in {"jar", "main_class", "done"}
       /\ qpc = "done" =>
            qres = (IF jar.kind = "jar" THEN "no_main_class" ELSE "missing_jar")
       /\ ~Invoked
  /\ qres \in {"missing_jar", "no_main_class"} => NoEntryPoint

\* A jar whose Main-Class entry holds only spaces has been refused.
C29_Witness ==
  /\ qpc = "done"
  /\ qres = "no_main_class"
  /\ jar.lines = <<"Main-Class:  ">>
  /\ ~Invoked

\* The arguments in the whole-argument form with a coordinate, and the local
\* path of each coordinate.
CoordinateArgs == {"[g:a:1]", "[g:a:{A}@zip]"}
CoordinatePath(arg) ==
  IF arg = "[g:a:1]" THEN "libraries/g/a/1/a-1.jar" ELSE "libraries/g/a/{A}/a-{A}.zip"

\* An argument in brackets whose text is no coordinate.
BadCoordinateArgs == {"[abc]"}

\* The argument does not expand.
FailsToExpand(toks, arg) ==
  /\ arg \notin CoordinateArgs
  /\ arg \in BadCoordinateArgs \/ replace_tokens(toks, arg).st # "ok"

\* What the argument expands to.
Expansion(toks, arg) ==
  IF arg \in CoordinateArgs THEN CoordinatePath(arg) ELSE replace_tokens(toks, arg).out

\* The loop over the arguments has run.
ArgsBuilt ==
  \/ qpc = "spawn"
  \/ qpc = "done" /\ qres \in {"bad_argument", "panic", "spawned", "spawn_failed"}

\* C30: an argument that as a whole has the form [group:artifact:version...] is
\* replaced by the coordinate's local path without the token map being
\* consulted, braces and quotes in it included; every other argument goes
\* through replace_tokens; if any argument fails to expand, the step aborts and
\* the external tool is not invoked.
C30_ArgumentExpansion ==
  ArgsBuilt =>
    IF \E i \in 1..Len(proc_args) : FailsToExpand(data, proc_args[i])
      THEN /\ qpc = "done"
           /\ qres \in {"bad_argument", "panic"}
           /\ ~Invoked
      ELSE /\ args = [i \in 1..Len(proc_args) |-> Expansion(data, proc_args[i])]
           /\ Invoked => SubSeq(cmd_args, 4, Len(cmd_args)) = args

\* The tool was spawned with a coordinate argument that holds braces, taken as
\* a path, and an argument expanded from the token map.
C30_Witness ==
  /\ qres = "spawned"
  /\ proc_args = <<"[g:a:{A}@zip]", "{A}">>
  /\ args = <<"libraries/g/a/{A}/a-{A}.zip", "x">>
  /\ cmd_args[4] = "libraries/g/a/{A}/a-{A}.zip"

\* remove_file failed on a file whose digest was not the expected one.
DeleteFailed(e) == e.out = "mismatch" /\ e.rm = "fail"

\* C33: a deletion failure is a hard failure.  In download_library, when the
\* removal of a digest-mismatched file fails (a stale local copy, a mismatched
\* extraction, or a mismatched download), the call returns an error at once: no
\* further source is tried and nothing is appended to grabbed.
C33_DeleteFailureIsHard ==
  \A i \in 1..Len(ops) :
    (library # NoLib /\ DeleteFailed(ops[i])) =>
      /\ i = Len(ops)
      /\ pc = "ret"
      /\ res = "err"
      /\ Len(grabbed) = glen

\* A download whose bytes did not match and could not be removed, after the
\* local copy and the archive had been consulted.
C33_Witness ==
  /\ LibReturned
  /\ Len(ops) >= 3
  /\ ops[Len(ops)].src = "remote"
  /\ DeleteFailed(ops[Len(ops)])
  /\ res = "err"

\* The log entries of the additional directories are those of directories 1, 2, ..
\* in the order the caller gave them.
DirsInOrder(log) ==
  \A i \in 1..Len(log) : log[i].src = "dir" =>
    IF i > 1 /\ log[i - 1].src = "dir" THEN log[i].n = log[i - 1].n + 1 ELSE log[i].n = 1

\* A copy from a directory ends the call: the target holds bytes with the digest
\* of the requirement, the artifact is the one appended to grabbed, and the remote
\* source is not contacted.
CopyWins(log) ==
  \A i \in 1..Len(log) : (log[i].src = "dir" /\ log[i].out = "copied") =>
    /\ i = Len(log)
    /\ pc = "ret" /\ res = "ok"
    /\ files[Target] # Absent /\ Sha1(files[Target]) = Sha1Of
    /\ Len(grabbed) = glen + 1 /\ grabbed[Len(grabbed)] = Target
    /\ \A j \in 1..Len(log) : log[j].src # "remote"

\* A candidate whose digest differs is passed over: the next entry of the log, if
\* any, is the next directory or the remote source, and nothing was appended.
MismatchNotCopied(log) ==
  \A i \in 1..Len(log) : (log[i].src = "dir" /\ log[i].out = "mismatch") =>
    /\ i = Len(log) => Len(grabbed) = glen
    /\ i < Len(log) => log[i + 1].src \in {"dir", "remote"}

\* After entry i of the log the resolution went on: with the next directory, or
\* with the remote source when the directory was the last one.
WentOn(log, i) ==
  pc = "ret" =>
    IF log[i].n < ndirs
      THEN i < Len(log) /\ log[i + 1].src = "dir" /\ log[i + 1].n = log[i].n + 1
      ELSE \/ i < Len(log) /\ log[i + 1].src = "remote"
           \/ i = Len(log) /\ res = "err" /\ err = "missing_url"

\* C34 as stated: the directories are tried in the given order; the first one
\* with a file of the matching digest is copied to the target, the artifact is
\* appended to grabbed and no remote download happens; a candidate with another
\* digest is never copied; a failed copy never fails the resolution, the next
\* directory is tried.
C34_FailedCopyNeverFatal ==
  library # NoLib =>
    /\ DirsInOrder(ops)
    /\ CopyWins(ops)
    /\ MismatchNotCopied(ops)
    /\ \A i \in 1..Len(ops) : (ops[i].src = "dir" /\ ops[i].out = "copyfail") => WentOn(ops, i)

\* C34 as amended: as above, except that a failed copy whose partial file cannot
\* be removed from the target ends the call with an error; any other failed copy
\* does not fail the resolution and the next directory is tried.
C34_AdditionalDirectories ==
  library # NoLib =>
    /\ DirsInOrder(ops)
    /\ CopyWins(ops)
    /\ MismatchNotCopied(ops)
    /\ \A i \in 1..Len(ops) : (ops[i].src = "dir" /\ ops[i].out = "copyfail") =>
         IF ops[i].rm = "fail"
           THEN /\ i = Len(ops) /\ pc = "ret" /\ res = "err"
                /\ Len(grabbed) = glen
           ELSE WentOn(ops, i)

\* The copy from the first directory failed, the second directory was tried and
\* its file was copied.
C34_Witness ==
  /\ LibReturned
  /\ res = "ok"
  /\ \E i \in 1..(Len(ops) - 1) :
       /\ ops[i].src = "dir" /\ ops[i].n = 1 /\ ops[i].out = "copyfail"
       /\ ops[i + 1].src = "dir" /\ ops[i + 1].n = 2 /\ ops[i + 1].out = "copied"

\* The declared outputs of processor p that exist in fs without having the
\* expected digest.
StaleOutputs(fs, p) ==
  {o \in Declared(p) : fs[o] # Absent /\ ~OutputValid(fs[o], p.outputs[o])}

\* C35: the side effect of the cache check.  Every declared output that exists
\* but does not have its expected digest is deleted before the tool is invoked;
\* every output that is missing or mismatched marks the step as must-run; the
\* outputs that validate are left untouched.
C35_CacheCheckSideEffect ==
  [][ppc = "cache" =>
       /\ ppc' = "preflight" => StaleOutputs(outs', procs[pi]) = {}
       /\ (todo = {} /\ ~valid0) => ppc' = "preflight"
       /\ \A o \in Declared(procs[pi]) :
            OutputValid(outs[o], procs[pi].outputs[o]) => outs'[o] = outs[o]]_vars

\* C37: every library that bulk resolution appends to grabbed and that declares
\* a non-empty checksum list has, at its target path, a file whose digest is one
\* of the declared checksums: a digest-verified download is not replaced by
\* unverified archive content, and an unverified extraction is not counted as
\* grabbed.
C37_GrabbedIsVerified ==
  [][(BulkFetched /\ grabbed' = Append(grabbed, blib.name) /\ blib.checksums # <<>>) =>
       /\ files'[blib.name] # Absent
       /\ Contains(blib.checksums, Sha1(files'[blib.name]))]_vars

\* The outputs the step of the cache loop visits.
Visited == todo \ todo'

\* C38: the cache check never crashes on a bad output entry.  An entry whose
\* expected-digest template is absent (null) or fails token expansion makes the
\* step return the invalid-configuration error, and the pipeline aborts through
\* its normal error path.
C38_BadOutputSpecIsAnError ==
  [][(ppc = "cache" /\ \E o \in Visited : procs[pi].outputs[o] = None) =>
       /\ ppc' = "done"
       /\ pres' = "err"]_vars

\* The processor the loop is at declares no outputs.
NoOutputs == pi <= Len(procs) /\ Declared(procs[pi]) = {}

\* C40: a processor that declares no outputs is never a cache hit.  In every
\* run, when the loop reaches it, it goes on to the preflight and the tool
\* instead of being skipped; and once the tool has been spawned and has
\* terminated, the step succeeds whatever the tool did.
C40_NoOutputsAlwaysRuns ==
  [][/\ (ppc = "begin" /\ NoOutputs) => ppc' = "preflight"
     /\ (ppc = "validate" /\ NoOutputs) =>
          /\ ppc' = "begin"
          /\ plog' = Append(plog, Pv(pi, "ok"))
     /\ \A j \in 1..Len(plog') :
          Declared(procs[plog'[j].p]) = {} =>
            /\ plog'[j].ev # "skip"
            /\ plog'[j].ev = "ok" => (j > 1 /\ plog'[j - 1] = Pv(plog'[j].p, "invoke"))]_vars

\* In the second run of the pipeline the tool of a processor without outputs
\* was invoked again, ended with a non-zero status, and the step succeeded.
C40_Witness ==
  /\ runs = 2
  /\ ppc = "begin"
  /\ pi = 2
  /\ Declared(procs[1]) = {}
  /\ exit = "nonzero"
  /\ plog = <<Pv(1, "begin"), Pv(1, "preflight"), Pv(1, "invoke"), Pv(1, "ok")>>

\* The entries of the index for the game version asked for that have the flag.
Flagged(flag) == {i \in 1..Len(handler) : handler[i].mc_version = mc_ver /\ Flag(handler[i], flag)}

\* C36: get_best_version(mc_version) returns the version flagged recommended for
\* that game version when there is one, otherwise the version flagged latest; it
\* returns None only when the game version has neither.
C36_BestVersion ==
  vpc = "returned" =>
    IF Flagged("recommended") # {}
      THEN \E i \in Flagged("recommended") : best = <<handler[i]>>
    ELSE IF Flagged("latest") # {}
      THEN \E i \in Flagged("latest") : best = <<handler[i]>>
      ELSE best = <<>>

\* The form of a manifest data value, as the description of the preparation
\* names them.
IsCoordinateForm(value) == Len(value) >= 2 /\ StartsWith(value, "[") /\ EndsWith(value, "]")
IsLiteralForm(value) == Len(value) >= 2 /\ StartsWith(value, "'") /\ EndsWith(value, "'")
Inner(value) == SubSeq(value, 2, Len(value) - 1)
Rewrites(log, key) == Cardinality({i \in 1..Len(log) : log[i].key = key})
FailedExtractions(log) == {i \in 1..Len(log) : log[i].kind = "extract" /\ ~log[i].ok}

\* The value of the key is what the preparation is described to make of it.
Rewritten(env, log, files0, key) ==
  LET value == snapshot[key] IN
    /\ Rewrites(log, key) = 1
    /\ IF IsCoordinateForm(value)
         THEN ArtifactTryFrom(Inner(value)).ok
                => env[key] = get_local_path(ArtifactTryFrom(Inner(value)).value)
       ELSE IF IsLiteralForm(value)
         THEN env[key] = Inner(value)
         ELSE /\ StartsWith(env[key], TempDir \o "/")
              /\ env[key] \in files0

\* C31: before any processor is handled each manifest data value is rewritten
\* exactly once ([coordinate] to the coordinate's local path, 'text' to text,
\* anything else to the path in the temp directory it was extracted to); when
\* extractions fail, all failed entries are reported together and no processor
\* is handled; while processors are handled the environment is not changed.
C31_EnvironmentPrepared ==
  [][/\ eres' # "panic"
     /\ epc' = "processors" =>
          \A key \in DOMAIN snapshot' : Rewritten(edata', elog', temp', key)
     /\ (epc' = "done" /\ FailedExtractions(elog') # {}) =>
          /\ eres' = "extract"
          /\ {eerr'[i] : i \in 1..Len(eerr')}
               = {snapshot'[elog'[i].key] : i \in FailedExtractions(elog')}
          /\ handled' = 0
     /\ epc = "processors" => edata' = edata]_vars

\* Where the V1 branch stands with respect to bulk resolution.
BulkFinished == lpc \in {"mod_list", "write", "extract", "done"} /\ res = "ok"
WroteAnything == version_json \/ library_file

Resolved(i) == i <= Len(results) /\ results[i].res \in {"ok", "err"}

\* C32: in the V2 flow every library of the version descriptor and, when there
\* are processors, every library of the installer manifest's list is submitted
\* to resolution, and all these resolutions have completed before the first
\* processor is handled.
C32_AllSubmittedBeforeProcessors ==
  started => \A i \in 1..Len(Libraries) : Resolved(i)

====
